---- MODULE Spec2Model ----
(***************************************************************************)
(* Verification model of the Hyperliquid client fork:                      *)
(*   - NonceManager / CustomExchangeClient write path                      *)
(*     (src/src/clients/customexchange.ts)                                 *)
(*   - SubscriptionClient message routing (src/src/clients/subscription.ts)*)
(*     over the TypedEventTarget registry (src/unnamed/part_001)           *)
(*   - TypedEventTarget dispatch, step by step (src/unnamed/part_001)      *)
(*   - cancelAll*, getSlippagePrice, marketClose and closeAllPositions     *)
(*     (src/src/clients/customexchange.ts)                                 *)
(*   - MulticallClient balance queries (src/src/evm/multicall.ts)          *)
(*   - signature chain id resolution and the building of order()/cancel()  *)
(*     actions (src/src/clients/customexchange.ts)                         *)
(*   - delay and the AbortSignal.any polyfill                              *)
(*     (src/src/utils/compatibility/async.ts, abort-signal.ts)             *)
(* Every subsystem has its own specification over the shared variables;    *)
(* the variables of the other subsystems stay at their initial values.     *)
(***************************************************************************)
EXTENDS Integers, Sequences, FiniteSets, TLC

VARIABLES
    clock,        \* Date.now(): the wall clock, free to move either way
    lastNonce,    \* per client: the lastNonce field getNonce reads and writes
    issued,       \* log of getNonce results, in call order
    calls,        \* order()/cancel() invocations and how far each has run
    signerLog,    \* what signL1Action was called with, in call order
    wire,         \* the requests handed to transport.request, in order
    vEnv,         \* _validateResponse: the envelope under validation
    vOut,         \* _validateResponse: its outcome
    conv,         \* SubscriptionClient.hasSymbolConversion
    subs,         \* the subscriptions created so far, in creation order
    listeners,    \* TypedEventTarget.listeners: event type -> callbacks
    tasks,        \* message handlers suspended in `await convertResponse`
    msgCount,     \* inbound messages dispatched so far
    lastDispatch, \* the most recent dispatchEvent and what each handler did
    maxDelivered, \* per subscription: the latest message its listener has seen
    deliveries,   \* the listener invocations made by the most recent step
    etHeap,       \* TypedEventTarget: the listener arrays ever created
    etMap,        \* TypedEventTarget.listeners: event type -> its array
    etLoop,       \* dispatchEvent: the loop in progress, if any
    etLog,        \* the callback invocations made so far, in order
    etStart,      \* the callbacks registered when the current loop began
    etRemoved,    \* the callbacks removed since the current loop began
    etCount,      \* callbacks created, events dispatched, removals made
    exCfg,        \* CustomExchangeClient: useSymbolConversion, symbolConversion
    catalog,      \* what symbolConversion.getAllAssets() answers
    venuePos,     \* the venue: the user's position size per coin
    ops,          \* derived operations (cancelAll*, marketClose, closeAll)
    slipIn,       \* getSlippagePrice: its arguments
    slipOut,      \* getSlippagePrice: the price it returned
    mcIn,         \* MulticallClient: the query and what the chain answered
    mcOut,        \* MulticallClient: what the query returned
    chainIn,      \* signature chain id: configuration, wallet and its answer
    chainOut,     \* signature chain id: what _getSignatureChainId gave
    acts,         \* order() and cancel() calls, from their arguments on
    defaults,     \* defaultVaultAddress, defaultExpiresAfter and its uses
    tick,         \* the timers' clock
    sigs,         \* the AbortSignals the application holds
    delays,       \* delay() calls: their timer and their promise
    anys          \* the signals made by AbortSignal.any

nonceVars == <<clock, lastNonce, issued>>
writeVars == <<calls, signerLog, wire>>
valVars   == <<vEnv, vOut>>
subVars   == <<conv, subs, listeners, tasks, msgCount, lastDispatch,
               maxDelivered, deliveries>>
evVars    == <<etHeap, etMap, etLoop, etLog, etStart, etRemoved, etCount>>
opVars    == <<exCfg, catalog, venuePos, ops, slipIn, slipOut>>
auxVars   == <<mcIn, mcOut, chainIn, chainOut, acts, defaults>>
asyncVars == <<tick, sigs, delays, anys>>
vars == <<nonceVars, writeVars, valVars, subVars, evVars, opVars, auxVars, asyncVars>>

----------------------------------------------------------------------------
(* Bounds                                                                  *)

MaxClock == 2      \* wall-clock readings are 1..MaxClock
MaxIssued == 4      \* getNonce calls in one behaviour
NumClients == 2     \* CustomExchangeClient instances

Clients == 1..NumClients

\* `undefined`: the value of a property that was never assigned.
Undefined == 0 - 1

----------------------------------------------------------------------------
(* NonceManager.getNonce                                                   *)

\* JavaScript's `a <= b` on a number and a number-or-undefined: a comparison
\* with undefined is false.
JsLeq(a, b) == b # Undefined /\ a <= b

\* A variant that compares with < : two calls in one millisecond then return
\* the same value.
getNonce_strictLess(now, last) ==
    IF last # Undefined /\ now < last
    THEN [nonce |-> last + 1, lastNonce |-> last + 1]
    ELSE [nonce |-> now, lastNonce |-> now]

\* A variant without the duplicate guard: the clock reading is returned as is.
getNonce_clockOnly(now, last) == [nonce |-> now, lastNonce |-> now]

\* A variant that returns the incremented value without storing it.
getNonce_noStore(now, last) ==
    IF JsLeq(now, last)
    THEN [nonce |-> last + 1, lastNonce |-> last]
    ELSE [nonce |-> now, lastNonce |-> now]

\* getNonce(): `now` is Date.now(), `last` is this.lastNonce on entry.  The
\* result is the returned nonce and the value left in this.lastNonce.
getNonce(now, last) ==
    IF JsLeq(now, last)
    THEN [nonce |-> last + 1, lastNonce |-> last + 1]   \* nonce = ++this.lastNonce
    ELSE [nonce |-> now, lastNonce |-> now]             \* this.lastNonce = nonce

\* The constructor installs `new NonceManager().getNonce` as this.nonceManager.
\* The method is detached from its NonceManager, so a call this.nonceManager()
\* runs with `this` bound to the client: the lastNonce it reads and writes is
\* a property of the client, which is unset until the first call.
LastNonceInit == [c \in Clients |-> Undefined]

NonceInit ==
    /\ clock \in 1..MaxClock
    /\ lastNonce = LastNonceInit
    /\ issued = <<>>

\* The wall clock advances.
ClockForward ==
    /\ \E t \in 1..MaxClock : t > clock /\ clock' = t
    /\ UNCHANGED <<lastNonce, issued, writeVars, valVars, subVars, evVars, opVars,
                   auxVars, asyncVars>>

\* The wall clock is set back (NTP step, manual change).
ClockBackward ==
    /\ \E t \in 1..MaxClock : t < clock /\ clock' = t
    /\ UNCHANGED <<lastNonce, issued, writeVars, valVars, subVars, evVars, opVars,
                   auxVars, asyncVars>>

\* One call of client c's nonceManager().
DrawNonce(c) ==
    LET r == getNonce(clock, lastNonce[c]) IN
    /\ Len(issued) < MaxIssued
    /\ lastNonce' = [lastNonce EXCEPT ![c] = r.lastNonce]
    /\ issued' = Append(issued,
                        [client |-> c, now |-> clock,
                         prev |-> lastNonce[c], nonce |-> r.nonce])
    /\ UNCHANGED clock

CallNonceManager ==
    \E c \in Clients : DrawNonce(c) /\ UNCHANGED <<writeVars, valVars, subVars, evVars, opVars, auxVars, asyncVars>>

NonceIdle == clock = 1 /\ lastNonce = LastNonceInit /\ issued = <<>>

----------------------------------------------------------------------------
(* Response envelopes and CustomExchangeClient._validateResponse           *)

MaxStatuses == 3    \* per-item statuses in one bulk response

\* One entry of response.data.statuses: a string such as "success" or an
\* object with one key: {resting: ...}, {filled: ...} or {error: "..."}.
ItemSuccess == [isObject |-> FALSE, key |-> "success"]
ItemResting == [isObject |-> TRUE, key |-> "resting"]
ItemError   == [isObject |-> TRUE, key |-> "error"]
Items == {ItemSuccess, ItemResting, ItemError}

StatusLists(n) == UNION {[1..k -> Items] : k \in 0..n}

\* {status: "err", response: "<message>"}
ErrEnvelope == [status |-> "err", type |-> "error", statuses |-> <<>>]
\* {status: "ok", response: {type: "default"}}
DefaultEnvelope == [status |-> "ok", type |-> "default", statuses |-> <<>>]
\* {status: "ok", response: {type, data: {statuses}}}
BulkEnvelopes(n) ==
    [status : {"ok"}, type : {"order", "cancel"}, statuses : StatusLists(n)]

EnvelopesUpTo(n) == {ErrEnvelope, DefaultEnvelope} \union BulkEnvelopes(n)
Envelopes == EnvelopesUpTo(MaxStatuses)

NoEnvelope == [status |-> "none", type |-> "none", statuses |-> <<>>]

\* statuses.some((status) => typeof status === "object" && "error" in status)
someErrorStatus(statuses) ==
    \E i \in 1..Len(statuses) : statuses[i].isObject /\ statuses[i].key = "error"

Returned(response) == [thrown |-> FALSE, error |-> "none", response |-> response]
Thrown(response) == [thrown |-> TRUE, error |-> "ApiRequestError", response |-> response]

\* A variant that looks only at the first per-item status.
validateResponse_firstOnly(response) ==
    IF response.status = "err"
    THEN Thrown(response)
    ELSE IF response.type = "order" \/ response.type = "cancel"
         THEN IF Len(response.statuses) > 0 /\ someErrorStatus(<<response.statuses[1]>>)
              THEN Thrown(response)
              ELSE Returned(response)
         ELSE Returned(response)

\* _validateResponse(response): throws ApiRequestError(response) or returns.
validateResponse(response) ==
    IF response.status = "err"
    THEN Thrown(response)
    ELSE IF response.type = "order" \/ response.type = "cancel"
         THEN IF someErrorStatus(response.statuses)
              THEN Thrown(response)
              ELSE Returned(response)
         ELSE Returned(response)

NotValidated == [thrown |-> FALSE, error |-> "none", response |-> NoEnvelope]

ValIdle == vEnv = NoEnvelope /\ vOut = NotValidated

ValInit == vEnv \in Envelopes /\ vOut = NotValidated

\* _validateResponse runs on the envelope.
Validate ==
    /\ vEnv # NoEnvelope
    /\ vOut = NotValidated
    /\ vOut' = validateResponse(vEnv)
    /\ UNCHANGED <<vEnv, nonceVars, writeVars, subVars, evVars, opVars, auxVars, asyncVars>>

----------------------------------------------------------------------------
(* The write path: order(), cancel(), _request and the operations that     *)
(* write through them                                                      *)

MaxCalls == 2       \* order()/cancel() invocations in one behaviour
MaxItems == 1       \* per-item statuses in a response on the write path

\* The wallet each client was constructed with: clients 1 and 2 sign with the
\* same wallet.
WalletOf(c) == IF c <= 2 THEN "w1" ELSE "w2"

\* The public operations that end in a write, and the write each one issues:
\* cancelAllOrders/cancelAllSpotOrders/cancelAllPerpOrders return what
\* await this.cancel(cancelParams) gave, marketClose returns
\* this.order(orderRequest),
\* closeAllPositions awaits Promise.all of its marketClose calls.
CancelVias == {"cancel", "cancelAllOrders", "cancelAllSpotOrders", "cancelAllPerpOrders"}
OrderVias  == {"order", "marketClose", "closeAllPositions"}
Vias == CancelVias \union OrderVias

WriteOf(via) == IF via \in CancelVias THEN "cancel" ELSE "order"

\* What the transport may answer to a write of the given type: an error
\* envelope, or a bulk envelope of that type.  A cancel item is "success" or
\* {error}, an order item is {resting} or {error}.
ItemsOf(write) ==
    IF write = "cancel" THEN {ItemSuccess, ItemError} ELSE {ItemResting, ItemError}

ResponsesFor(write) ==
    {ErrEnvelope} \union
    {e \in BulkEnvelopes(MaxItems) :
        e.type = write /\ \A k \in 1..Len(e.statuses) : e.statuses[k] \in ItemsOf(write)}

NewCall(c, via, group) ==
    [via |-> via, client |-> c, group |-> group, pc |-> "nonce",
     nonce |-> Undefined, result |-> NoEnvelope, error |-> "none"]

\* A variant of _request that hands the response back without validating it.
request_noValidate(response) == Returned(response)

\* _request after transport.request has resolved with `response`:
\* this._validateResponse(response); return response.
request(response) == validateResponse(response)

WriteIdle == calls = <<>> /\ signerLog = <<>> /\ wire = <<>>
WriteInit == calls = <<>> /\ signerLog = <<>> /\ wire = <<>>

\* The application calls order(), cancel(), marketClose() or a cancelAll*
\* operation on client c and the call reaches the point where it awaits
\* this.nonceManager().
StartWrite(c, via) ==
    /\ via # "closeAllPositions"
    /\ Len(calls) < MaxCalls
    /\ calls' = Append(calls, NewCall(c, via, 0))
    /\ UNCHANGED <<signerLog, wire, nonceVars, valVars, subVars, evVars, opVars, auxVars, asyncVars>>

\* closeAllPositions on client c with k nonzero positions: k marketClose calls
\* are started before any is awaited.  They form the group numbered by the
\* index of its first call.
StartCloseAll(c, k) ==
    /\ Len(calls) + k <= MaxCalls
    /\ calls' = calls \o [j \in 1..k |->
                            NewCall(c, "closeAllPositions", Len(calls) + 1)]
    /\ UNCHANGED <<signerLog, wire, nonceVars, valVars, subVars, evVars, opVars, auxVars, asyncVars>>

\* An await that rejects inside order(), cancel() or _request stands in no
\* try block: the call rejects with that error and does nothing more.
reject_retry(call, error) == [call EXCEPT !.pc = "nonce"]

\* A variant that rejects with an error of the client's own.
reject_wrapped(call, error) ==
    [call EXCEPT !.pc = "rejected", !.error = "ApiRequestError"]

reject(call, error) == [call EXCEPT !.pc = "rejected", !.error = error]

\* The action of call i and the vaultAddress and expiresAfter it runs with:
\* those of the order()/cancel() invocation when the arguments were
\* modelled, those a derived operation passes (no vaultAddress, no
\* expiresAfter, so the configured defaults) otherwise.
argsOf(i) ==
    LET owners == {k \in 1..Len(acts) : acts[k].call = i}
        derived == {j \in 1..Len(ops) : ops[j].call = i} IN
    IF owners # {}
    THEN LET k == CHOOSE k \in owners : TRUE IN
         [type |-> acts[k].kind, items |-> acts[k].action,
          vaultAddress |-> acts[k].vaultAddress,
          expiresAfter |-> acts[k].expiresAfter]
    ELSE [type |-> WriteOf(calls[i].via),
          items |-> IF derived = {} THEN <<>>
                    ELSE LET op == ops[CHOOSE j \in derived : TRUE] IN
                         [k \in 1..Len(op.orders) |-> op.orders[k].a] \o
                         [k \in 1..Len(op.cancels) |-> op.cancels[k].a],
          vaultAddress |-> defaults.vault,
          expiresAfter |-> Undefined]

\* What signL1Action is called with: the action, the nonce just drawn,
\* vaultAddress and expiresAfter.  `raised` is the error the signer
\* rejected with, once it has.
signerInput(i, nonce) ==
    [call |-> i, client |-> calls[i].client, nonce |-> nonce,
     type |-> argsOf(i).type, items |-> argsOf(i).items,
     vaultAddress |-> argsOf(i).vaultAddress,
     expiresAfter |-> argsOf(i).expiresAfter, raised |-> "none"]

\* A variant of the request that reads the nonce from the sequencer's
\* stored value when the request is put together.
requestPayload_sharedNonce(i) ==
    [call |-> i, client |-> calls[i].client, nonce |-> lastNonce[calls[i].client],
     type |-> argsOf(i).type, items |-> argsOf(i).items,
     vaultAddress |-> argsOf(i).vaultAddress,
     expiresAfter |-> argsOf(i).expiresAfter]

\* { action, signature, nonce, vaultAddress, expiresAfter }: the request is
\* put together from the call's own constants.
requestPayload(i) ==
    [call |-> i, client |-> calls[i].client, nonce |-> calls[i].nonce,
     type |-> argsOf(i).type, items |-> argsOf(i).items,
     vaultAddress |-> argsOf(i).vaultAddress,
     expiresAfter |-> argsOf(i).expiresAfter]

\* The entry of the signer's log that call i made.
SignedAt(i) == CHOOSE n \in 1..Len(signerLog) : signerLog[n].call = i

\* const nonce = await this.nonceManager(); the action is put together and
\* signL1Action is called.
WriteDrawNonce(i) ==
    LET c == calls[i].client
        r == getNonce(clock, lastNonce[c]) IN
    /\ calls[i].pc = "nonce"
    /\ lastNonce' = [lastNonce EXCEPT ![c] = r.lastNonce]
    /\ issued' = Append(issued,
                        [client |-> c, now |-> clock,
                         prev |-> lastNonce[c], nonce |-> r.nonce])
    /\ calls' = [calls EXCEPT ![i].pc = "signing", ![i].nonce = r.nonce]
    /\ signerLog' = Append(signerLog, signerInput(i, r.nonce))
    /\ UNCHANGED <<clock, wire, valVars, subVars, evVars, opVars, auxVars, asyncVars>>

\* signL1Action resolves with a signature; _request hands the signed request
\* to transport.request.
SignOk(i) ==
    /\ calls[i].pc = "signing"
    /\ calls' = [calls EXCEPT ![i].pc = "sending"]
    /\ wire' = Append(wire, requestPayload(i))
    /\ UNCHANGED <<signerLog, nonceVars, valVars, subVars, evVars, opVars, auxVars, asyncVars>>

\* signL1Action rejects: order()/cancel() rejects with the signer's error.
SignFail(i) ==
    /\ calls[i].pc = "signing"
    /\ calls' = [calls EXCEPT ![i] = reject(calls[i], "SignerError")]
    /\ signerLog' = [signerLog EXCEPT ![SignedAt(i)].raised = "SignerError"]
    /\ UNCHANGED <<wire, nonceVars, valVars, subVars, evVars, opVars, auxVars, asyncVars>>

\* transport.request resolves with an envelope and _request runs to its end.
TransportRespond(i, response) ==
    LET v == request(response) IN
    /\ calls[i].pc = "sending"
    /\ response \in ResponsesFor(WriteOf(calls[i].via))
    /\ calls' = [calls EXCEPT
                   ![i] = IF v.thrown THEN reject(calls[i], v.error)
                          ELSE [calls[i] EXCEPT !.pc = "returned",
                                                !.result = v.response,
                                                !.error = v.error]]
    /\ UNCHANGED <<signerLog, wire, nonceVars, valVars, subVars, evVars, opVars, auxVars, asyncVars>>

\* transport.request rejects (network failure).
TransportFail(i) ==
    /\ calls[i].pc = "sending"
    /\ calls' = [calls EXCEPT ![i] = reject(calls[i], "TransportError")]
    /\ UNCHANGED <<signerLog, wire, nonceVars, valVars, subVars, evVars, opVars, auxVars, asyncVars>>

\* Promise.all(closeOrders) of the closeAllPositions group g.
GroupMembers(g) == {i \in 1..Len(calls) : calls[i].group = g}
Groups == {calls[i].group : i \in 1..Len(calls)} \ {0}
PromiseAllFulfilled(g) == \A i \in GroupMembers(g) : calls[i].pc = "returned"
PromiseAllRejected(g) == \E i \in GroupMembers(g) : calls[i].pc = "rejected"

\* The envelopes handed back by order()/cancel() to their callers: the
\* application, or the derived operation that issued the write.
WriteResults == {calls[i].result : i \in {j \in 1..Len(calls) : calls[j].pc = "returned"}}

\* The envelopes in the lists closeAllPositions has resolved with.
CloseAllResults ==
    UNION {{calls[i].result : i \in GroupMembers(g)} :
              g \in {h \in Groups : PromiseAllFulfilled(h)}}

----------------------------------------------------------------------------
(* SubscriptionClient over the transport's TypedEventTarget                *)

MaxSubs == 2       \* subscriptions created in one behaviour
MaxMsgs == 2       \* inbound messages in one behaviour
MaxBatch == 2       \* entries in one trades message

\* Venue-internal coin names and the display names the translator maps them
\* to: "BTC" is a perpetual, "@1" a spot asset.
InternalCoins == {"BTC", "@1"}
DisplayCoins  == {"BTC-PERP", "PURR-SPOT"}

\* User addresses: "0xab" and "0xAB" are one address in two spellings.
Addrs == {"0xab", "0xAB", "0xcd"}
NoCoin == ""
NoUser == ""

\* String.prototype.toLowerCase on the addresses of the model.
toLowerCase(a) == IF a = "0xAB" THEN "0xab" ELSE a

\* String.prototype.startsWith("@") on the coin names of the model.
startsWithAt(coin) == coin = "@1"

\* symbolConversion.convertSymbol(symbol): venue-internal to display form; a
\* symbol the translator does not know is returned as it is.
convertSymbol(symbol) ==
    CASE symbol = "BTC" -> "BTC-PERP"
      [] symbol = "ETH" -> "ETH-PERP"
      [] symbol = "@1"  -> "PURR-SPOT"
      [] OTHER -> symbol

\* symbolConversion.convertSymbol(symbol, 'reverse'): display to
\* venue-internal form.
convertSymbolReverse(symbol) ==
    CASE symbol = "BTC-PERP"  -> "BTC"
      [] symbol = "ETH-PERP"  -> "ETH"
      [] symbol = "PURR-SPOT" -> "@1"
      [] OTHER -> symbol

\* A message payload: the symbols it carries, in order (one for a
\* single-asset event, one per entry for a trades batch), and the user
\* address it is tagged with, if any.
\* symbolConversion.convertResponse(payload): every symbol in display form.
convertResponse(payload) ==
    [payload EXCEPT !.coins = [k \in 1..Len(payload.coins) |->
                                  convertSymbol(payload.coins[k])]]

----------------------------------------------------------------------------
(* The subscription methods                                                *)

CoinMethods == {"activeAssetCtx", "bbo", "candle", "l2Book", "trades"}
UserMethods == {"userFills", "userFundings", "userNonFundingLedgerUpdates",
                "userTwapHistory", "userTwapSliceFills", "webData2"}
OpenMethods == {"userEvents", "notification", "orderUpdates"}
Methods == CoinMethods \union {"activeAssetData"} \union UserMethods \union OpenMethods

TakesCoin(method) == method \in CoinMethods \union {"activeAssetData"}
TakesUser(method) == method \notin CoinMethods

\* The coin sent in the subscribe payload.
requestCoinOf(method, coin) ==
    IF TakesCoin(method)
    THEN IF conv THEN convertSymbolReverse(coin) ELSE coin
    ELSE NoCoin

\* The channel (event type) the method listens on.
channelOf(method, coin) ==
    CASE method = "activeAssetCtx" ->
            IF startsWithAt(coin) THEN "activeSpotAssetCtx" ELSE "activeAssetCtx"
      [] method = "userEvents" -> "user"
      [] OTHER -> method

Channels == {channelOf(m, c) : m \in Methods, c \in InternalCoins \union DisplayCoins}

\* A variant of the userEvents handler that filters on the user address.
userEventsMatch_byUser(s, d) == d.user = toLowerCase(s.user)

\* The test each method's message handler applies to e.detail before it
\* does anything else.  s is the subscription, d the message payload.
activeAssetCtxMatch(s, d) == d.coins[1] = s.requestCoin
activeAssetDataMatch(s, d) ==
    toLowerCase(d.user) = toLowerCase(s.user) /\ d.coins[1] = s.requestCoin
bboMatch(s, d) == d.coins[1] = s.requestCoin
candleMatch(s, d) == d.coins[1] = s.requestCoin
l2BookMatch(s, d) == d.coins[1] = s.requestCoin
\* e.detail[0]?.coin === requestCoin
tradesMatch(s, d) == Len(d.coins) > 0 /\ d.coins[1] = s.requestCoin
notificationMatch(s, d) == TRUE
orderUpdatesMatch(s, d) == TRUE
userEventsMatch(s, d) == TRUE
userFillsMatch(s, d) == d.user = toLowerCase(s.user)
userFundingsMatch(s, d) == d.user = toLowerCase(s.user)
userNonFundingLedgerUpdatesMatch(s, d) == d.user = toLowerCase(s.user)
userTwapHistoryMatch(s, d) == d.user = toLowerCase(s.user)
userTwapSliceFillsMatch(s, d) == d.user = toLowerCase(s.user)
webData2Match(s, d) == d.user = toLowerCase(s.user)

Matches(s, d) ==
    CASE s.method = "activeAssetCtx" -> activeAssetCtxMatch(s, d)
      [] s.method = "activeAssetData" -> activeAssetDataMatch(s, d)
      [] s.method = "bbo" -> bboMatch(s, d)
      [] s.method = "candle" -> candleMatch(s, d)
      [] s.method = "l2Book" -> l2BookMatch(s, d)
      [] s.method = "trades" -> tradesMatch(s, d)
      [] s.method = "notification" -> notificationMatch(s, d)
      [] s.method = "orderUpdates" -> orderUpdatesMatch(s, d)
      [] s.method = "userEvents" -> userEventsMatch(s, d)
      [] s.method = "userFills" -> userFillsMatch(s, d)
      [] s.method = "userFundings" -> userFundingsMatch(s, d)
      [] s.method = "userNonFundingLedgerUpdates" -> userNonFundingLedgerUpdatesMatch(s, d)
      [] s.method = "userTwapHistory" -> userTwapHistoryMatch(s, d)
      [] s.method = "userTwapSliceFills" -> userTwapSliceFillsMatch(s, d)
      [] s.method = "webData2" -> webData2Match(s, d)

\* The handlers of userNonFundingLedgerUpdates and userTwapHistory call the
\* listener with e.detail whatever hasSymbolConversion is; every other
\* handler awaits the translator first when hasSymbolConversion is set.
Translates(method) ==
    conv /\ method \notin {"userNonFundingLedgerUpdates", "userTwapHistory"}

\* What one call of the subscription's message handler does with a message:
\* nothing, call the listener at once, or suspend in the translator.
handlerOutcome(s, d) ==
    IF ~Matches(s, d) THEN "skipped"
    ELSE IF Translates(s.method) THEN "suspended"
    ELSE "delivered"

----------------------------------------------------------------------------
(* TypedEventTarget: the listener registry                                 *)

\* listeners maps an event type to its array of callbacks; a type without an
\* entry has no callbacks.  A callback is identified by the subscription
\* whose handler it is.
addEventListener(ls, type, callback) ==
    [ls EXCEPT ![type] = Append(@, callback)]

\* listeners.filter(listener => listener.callback !== callback)
removeEventListener(ls, type, callback) ==
    [ls EXCEPT ![type] = SelectSeq(@, LAMBDA x : x # callback)]

\* dispatchEvent(event): the callbacks it invokes, in order, when no callback
\* changes the registry while the loop runs.
dispatchEvent(ls, type) == ls[type]

----------------------------------------------------------------------------
(* Subscriptions, inbound messages and deliveries                          *)

ArgCoins == IF conv THEN DisplayCoins ELSE InternalCoins

Payloads(ch) ==
    CASE ch = "trades" ->
            [coins : UNION {[1..k -> InternalCoins] : k \in 0..MaxBatch}, user : {NoUser}]
      [] ch \in {"activeAssetCtx", "activeSpotAssetCtx", "bbo", "candle", "l2Book"} ->
            [coins : {<<c>> : c \in InternalCoins}, user : {NoUser}]
      [] ch \in {"user", "notification", "orderUpdates"} ->
            [coins : {<<c>> : c \in InternalCoins}, user : {NoUser}]
      [] OTHER ->
            [coins : {<<c>> : c \in InternalCoins}, user : Addrs]

NoPayload == [coins |-> <<>>, user |-> NoUser]
NoDispatch == [seq |-> 0, ch |-> "", payload |-> NoPayload, outcome |-> <<>>]

Max(a, b) == IF a >= b THEN a ELSE b

SubIdle ==
    /\ conv = FALSE
    /\ subs = <<>>
    /\ listeners = [ch \in Channels |-> <<>>]
    /\ tasks = {}
    /\ msgCount = 0
    /\ lastDispatch = NoDispatch
    /\ maxDelivered = <<>>
    /\ deliveries = {}

\* A SubscriptionClient constructed with or without a symbol translator.
SubInit ==
    /\ conv \in BOOLEAN
    /\ subs = <<>>
    /\ listeners = [ch \in Channels |-> <<>>]
    /\ tasks = {}
    /\ msgCount = 0
    /\ lastDispatch = NoDispatch
    /\ maxDelivered = <<>>
    /\ deliveries = {}

\* subsClient.<method>(args, listener): the request coin is computed, the
\* handler is built and transport.subscribe registers it on the channel.
\* (In one behaviour every subscription is made by the same method: methods
\* never share an event type, so handlers of different methods never meet in
\* a dispatch.)
Subscribe(method, coin, user) ==
    LET id == Len(subs) + 1
        ch == channelOf(method, coin) IN
    /\ Len(subs) < MaxSubs
    /\ \A k \in 1..Len(subs) : subs[k].method = method
    /\ coin \in (IF TakesCoin(method) THEN ArgCoins ELSE {NoCoin})
    /\ user \in (IF TakesUser(method) THEN Addrs ELSE {NoUser})
    /\ subs' = Append(subs, [method |-> method, coin |-> coin, user |-> user,
                             requestCoin |-> requestCoinOf(method, coin),
                             channel |-> ch, state |-> "active"])
    /\ listeners' = addEventListener(listeners, ch, id)
    /\ maxDelivered' = Append(maxDelivered, 0)
    /\ deliveries' = {}
    /\ lastDispatch' = NoDispatch
    /\ UNCHANGED <<conv, tasks, msgCount, nonceVars, writeVars, valVars, evVars, opVars,
                   auxVars, asyncVars>>

\* subscription.unsubscribe() is called: the handler leaves the registry (and
\* the transport asks the venue to close the channel when it was the last).
Unsubscribe(id) ==
    /\ subs[id].state = "active"
    /\ listeners' = removeEventListener(listeners, subs[id].channel, id)
    /\ subs' = [subs EXCEPT ![id].state = "closing"]
    /\ deliveries' = {}
    /\ lastDispatch' = NoDispatch
    /\ UNCHANGED <<conv, tasks, msgCount, maxDelivered, nonceVars, writeVars, valVars, evVars, opVars,
                   auxVars, asyncVars>>

\* The promise returned by unsubscribe() resolves.
UnsubscribeResolve(id) ==
    /\ subs[id].state = "closing"
    /\ subs' = [subs EXCEPT ![id].state = "closed"]
    /\ deliveries' = {}
    /\ lastDispatch' = NoDispatch
    /\ UNCHANGED <<conv, listeners, tasks, msgCount, maxDelivered,
                   nonceVars, writeVars, valVars, evVars, opVars, auxVars, asyncVars>>

Delivery(id, seq, raw, payload) ==
    [sub |-> id, seq |-> seq, raw |-> raw, payload |-> payload,
     state |-> subs[id].state, prevMax |-> maxDelivered[id]]

\* A message arrives on channel ch: the transport dispatches it and every
\* registered handler runs up to its first suspension.  (A message on a
\* channel without handlers changes nothing and is left out.)
Dispatch(ch, d) ==
    LET seq == msgCount + 1
        called == dispatchEvent(listeners, ch)
        ids == {called[k] : k \in 1..Len(called)}
        out == [id \in ids |-> handlerOutcome(subs[id], d)] IN
    /\ msgCount < MaxMsgs
    /\ called # <<>>
    /\ d \in Payloads(ch)
    /\ msgCount' = seq
    /\ tasks' = tasks \union
                {[sub |-> id, seq |-> seq, payload |-> d] :
                    id \in {x \in ids : out[x] = "suspended"}}
    /\ deliveries' = {Delivery(id, seq, d, d) : id \in {x \in ids : out[x] = "delivered"}}
    /\ maxDelivered' = [id \in 1..Len(subs) |->
                          IF id \in ids /\ out[id] = "delivered"
                          THEN Max(maxDelivered[id], seq) ELSE maxDelivered[id]]
    /\ lastDispatch' = [seq |-> seq, ch |-> ch, payload |-> d, outcome |-> out]
    /\ UNCHANGED <<conv, subs, listeners, nonceVars, writeVars, valVars, evVars, opVars,
                   auxVars, asyncVars>>

\* The translator resolves for a suspended handler, which calls the listener
\* with the translated payload.
TranslationDone(t) ==
    /\ t \in tasks
    /\ tasks' = tasks \ {t}
    /\ deliveries' = {Delivery(t.sub, t.seq, t.payload, convertResponse(t.payload))}
    /\ maxDelivered' = [maxDelivered EXCEPT ![t.sub] = Max(@, t.seq)]
    /\ lastDispatch' = NoDispatch
    /\ UNCHANGED <<conv, subs, listeners, msgCount, nonceVars, writeVars, valVars, evVars, opVars,
                   auxVars, asyncVars>>

----------------------------------------------------------------------------
(* TypedEventTarget step by step: callbacks that change the registry while *)
(* dispatchEvent is looping                                                *)

MaxCallbacks == 3   \* addEventListener calls in one behaviour
MaxEvents == 2      \* dispatchEvent calls in one behaviour
MaxRemoves == 1     \* removeEventListener calls made by the application

EvTypes == {"bbo", "trades"}

\* The arrays of the registry are objects: etHeap holds every array ever
\* created and etMap[type] is the index of the array the Map holds for the
\* type, 0 when the Map has no entry.  An array element is {callback,
\* options}; every callback is a fresh function, as the handlers built by the
\* subscription methods are.
NoArray == 0
ArrayAt(heap, ref) == IF ref = NoArray THEN <<>> ELSE heap[ref]
CallbacksOf(arr) == {arr[k].cb : k \in 1..Len(arr)}

\* addEventListener(type, callback, options): a type without an entry gets a
\* new empty array; the element is pushed onto the array the Map holds.
addEventListenerRef(heap, map, type, entry) ==
    IF map[type] = NoArray
    THEN [heap |-> Append(heap, <<entry>>),
          map |-> [map EXCEPT ![type] = Len(heap) + 1]]
    ELSE [heap |-> [heap EXCEPT ![map[type]] = Append(@, entry)],
          map |-> map]

\* A variant of removeEventListener that takes the element out of the array
\* the Map holds instead of storing a filtered copy.
removeEventListenerRef_inPlace(heap, map, type, callback) ==
    IF map[type] = NoArray
    THEN [heap |-> heap, map |-> map]
    ELSE [heap |-> [heap EXCEPT ![map[type]] =
                        SelectSeq(@, LAMBDA x : x.cb # callback)],
          map |-> map]

\* removeEventListener(type, callback): nothing without an entry; otherwise
\* the Map gets a filtered copy of the array, or loses the entry when the
\* copy is empty.  The array that was there is left as it is.
removeEventListenerRef(heap, map, type, callback) ==
    IF map[type] = NoArray
    THEN [heap |-> heap, map |-> map]
    ELSE LET filtered == SelectSeq(heap[map[type]], LAMBDA x : x.cb # callback) IN
         IF Len(filtered) > 0
         THEN [heap |-> Append(heap, filtered),
               map |-> [map EXCEPT ![type] = Len(heap) + 1]]
         ELSE [heap |-> heap, map |-> [map EXCEPT ![type] = NoArray]]

NoEntry == [cb |-> 0, once |-> FALSE]
NoLoop == [active |-> FALSE, type |-> "", arr |-> NoArray, pos |-> 0,
           phase |-> "loop", cur |-> NoEntry, msg |-> 0]
NoCount == [cbs |-> 0, events |-> 0, removes |-> 0]

EtIdle ==
    /\ etHeap = <<>>
    /\ etMap = [t \in EvTypes |-> NoArray]
    /\ etLoop = NoLoop
    /\ etLog = <<>>
    /\ etStart = {}
    /\ etRemoved = {}
    /\ etCount = NoCount

EtInit == EtIdle

\* What the log keeps of a step of the running dispatch: a callback was
\* called ("call") or taken out of the registry ("remove"); late says that
\* the callback was not registered when the dispatch began.
LogEntry(kind, cb) ==
    [kind |-> kind, msg |-> etLoop.msg, cb |-> cb, late |-> cb \notin etStart]

\* JavaScript runs one thing at a time: the registry is changed by the
\* application between two dispatches or by a callback the loop has called.
MayRun == ~etLoop.active \/ etLoop.phase = "callback"

\* target.addEventListener(type, callback, {once}) with a new callback.
EtAdd(type, once) ==
    LET cb == etCount.cbs + 1
        r == addEventListenerRef(etHeap, etMap, type, [cb |-> cb, once |-> once]) IN
    /\ MayRun
    /\ etCount.cbs < MaxCallbacks
    /\ etHeap' = r.heap
    /\ etMap' = r.map
    /\ etCount' = [etCount EXCEPT !.cbs = cb]
    /\ UNCHANGED <<etLoop, etLog, etStart, etRemoved,
                   nonceVars, writeVars, valVars, subVars, opVars, auxVars, asyncVars>>

\* target.removeEventListener(type, callback) with a callback made earlier.
EtRemove(type, cb) ==
    LET r == removeEventListenerRef(etHeap, etMap, type, cb) IN
    /\ MayRun
    /\ cb \in 1..etCount.cbs
    /\ etCount.removes < MaxRemoves
    /\ etHeap' = r.heap
    /\ etMap' = r.map
    /\ etCount' = [etCount EXCEPT !.removes = @ + 1]
    /\ etRemoved' = IF etLoop.active /\ etLoop.type = type
                    THEN etRemoved \union {cb} ELSE etRemoved
    /\ etLog' = IF etLoop.active /\ etLoop.type = type
                THEN Append(etLog, LogEntry("remove", cb)) ELSE etLog
    /\ UNCHANGED <<etLoop, etStart, nonceVars, writeVars, valVars, subVars, opVars,
                   auxVars, asyncVars>>

\* dispatchEvent(event): const listeners = this.listeners.get(event.type) || []
EtDispatchStart(type) ==
    /\ ~etLoop.active
    /\ etCount.events < MaxEvents
    /\ etLoop' = [active |-> TRUE, type |-> type, arr |-> etMap[type], pos |-> 0,
                  phase |-> "loop", cur |-> NoEntry, msg |-> etCount.events + 1]
    /\ etCount' = [etCount EXCEPT !.events = @ + 1]
    /\ etStart' = CallbacksOf(ArrayAt(etHeap, etMap[type]))
    /\ etRemoved' = {}
    /\ UNCHANGED <<etHeap, etMap, etLog, nonceVars, writeVars, valVars, subVars, opVars,
                   auxVars, asyncVars>>

\* for (const listener of listeners): the array iterator reads the array's
\* length at every step; the next element's callback is called.
EtInvoke ==
    LET arr == ArrayAt(etHeap, etLoop.arr)
        e == arr[etLoop.pos + 1] IN
    /\ etLoop.active
    /\ etLoop.phase = "loop"
    /\ etLoop.pos < Len(arr)
    /\ etLog' = Append(etLog, LogEntry("call", e.cb))
    /\ etLoop' = [etLoop EXCEPT !.pos = @ + 1, !.phase = "callback", !.cur = e]
    /\ UNCHANGED <<etHeap, etMap, etStart, etRemoved, etCount,
                   nonceVars, writeVars, valVars, subVars, opVars, auxVars, asyncVars>>

\* The callback returns; a once listener is removed.
EtCallbackReturn ==
    LET r == IF etLoop.cur.once
             THEN removeEventListenerRef(etHeap, etMap, etLoop.type, etLoop.cur.cb)
             ELSE [heap |-> etHeap, map |-> etMap] IN
    /\ etLoop.active
    /\ etLoop.phase = "callback"
    /\ etHeap' = r.heap
    /\ etMap' = r.map
    /\ etRemoved' = IF etLoop.cur.once THEN etRemoved \union {etLoop.cur.cb}
                    ELSE etRemoved
    /\ etLog' = IF etLoop.cur.once
                THEN Append(etLog, LogEntry("remove", etLoop.cur.cb)) ELSE etLog
    /\ etLoop' = [etLoop EXCEPT !.phase = "loop"]
    /\ UNCHANGED <<etStart, etCount, nonceVars, writeVars, valVars, subVars, opVars,
                   auxVars, asyncVars>>

\* The callback throws: the catch clause logs the error and the loop goes on
\* (the once handling is skipped).
EtCallbackThrow ==
    /\ etLoop.active
    /\ etLoop.phase = "callback"
    /\ etLoop' = [etLoop EXCEPT !.phase = "loop"]
    /\ UNCHANGED <<etHeap, etMap, etLog, etStart, etRemoved, etCount,
                   nonceVars, writeVars, valVars, subVars, opVars, auxVars, asyncVars>>

\* The iterator is past the end of the array: dispatchEvent returns.
EtDispatchEnd ==
    /\ etLoop.active
    /\ etLoop.phase = "loop"
    /\ etLoop.pos >= Len(ArrayAt(etHeap, etLoop.arr))
    /\ etLoop' = [etLoop EXCEPT !.active = FALSE]
    /\ UNCHANGED <<etHeap, etMap, etLog, etStart, etRemoved, etCount,
                   nonceVars, writeVars, valVars, subVars, opVars, auxVars, asyncVars>>

----------------------------------------------------------------------------
(* Derived operations of CustomExchangeClient: what they read, what they   *)
(* build and the write they end in                                         *)

MaxOrders == 2      \* open orders the venue reports
MaxOps == 1         \* derived operations the application starts

\* The coins of the venue and the display symbols of the translator.
VenueCoins == {"BTC", "ETH", "@1"}
Symbols == {"BTC-PERP", "ETH-PERP", "PURR-SPOT"}

\* this.hasSymbolConversion = this.useSymbolConversion && !!this.symbolConversion
hasSymbolConversion == exCfg.use /\ exCfg.translator

\* symbolConversion.getAssetIndex(symbol): the venue's index of a display
\* symbol, undefined for a symbol the translator does not know.
getAssetIndex(symbol) ==
    CASE symbol = "BTC-PERP"  -> 0
      [] symbol = "ETH-PERP"  -> 1
      [] symbol = "PURR-SPOT" -> 10001
      [] OTHER -> Undefined

\* String.prototype.endsWith('-PERP') and includes('-') on the symbols of
\* the model.
endsWithPERP(symbol) == symbol \in {"BTC-PERP", "ETH-PERP"}
includesDash(symbol) == symbol \in {"BTC-PERP", "ETH-PERP", "PURR-SPOT"}

\* openOrders(): the venue's list, through convertResponse when
\* hasSymbolConversion is set.
openOrders(venueOrders) ==
    IF hasSymbolConversion
    THEN [k \in 1..Len(venueOrders) |->
             [venueOrders[k] EXCEPT !.coin = convertSymbol(@)]]
    ELSE venueOrders

\* for (let order of openOrders) order.coin = await convertSymbol(order.coin)
withDisplayCoins(orders) ==
    [k \in 1..Len(orders) |-> [orders[k] EXCEPT !.coin = convertSymbol(@)]]

\* The filter predicates of cancelAllSpotOrders and cancelAllPerpOrders.
isSpot(coin) ==
    coin \in catalog.spot \/ (~endsWithPERP(coin) /\ includesDash(coin))
isPerp(coin) ==
    coin \in catalog.perp \/ endsWithPERP(coin)

\* A variant of the filters that keeps every order.
ordersToCancel_all(kind, symbol, orders) == orders

\* The orders each cancelAll operation keeps; an empty symbol argument is
\* no filter.
ordersToCancel(kind, symbol, orders) ==
    CASE kind = "cancelAllOrders" ->
            IF symbol # "" THEN SelectSeq(orders, LAMBDA o : o.coin = symbol)
            ELSE orders
      [] kind = "cancelAllSpotOrders" -> SelectSeq(orders, LAMBDA o : isSpot(o.coin))
      [] kind = "cancelAllPerpOrders" -> SelectSeq(orders, LAMBDA o : isPerp(o.coin))

\* A variant that lets an empty selection through.
noOrders_never(selected) == FALSE

\* if (ordersToCancel.length === 0) throw new Error('No orders to cancel')
noOrders(selected) == Len(selected) = 0

\* cancelParams.cancels as cancel() signs them: a is the order's coin and,
\* when hasSymbolConversion is set, idx the asset index it was resolved to.
cancelsOf(selected) ==
    [k \in 1..Len(selected) |->
        [a |-> selected[k].coin, o |-> selected[k].oid,
         idx |-> IF hasSymbolConversion THEN getAssetIndex(selected[k].coin)
                 ELSE Undefined]]

CancelAllKinds == {"cancelAllOrders", "cancelAllSpotOrders", "cancelAllPerpOrders"}

NewOp(kind, c, parent, symbol, size, px) ==
    [kind |-> kind, client |-> c, parent |-> parent, symbol |-> symbol,
     size |-> size, px |-> px, pc |-> "reading",
     openOrders |-> <<>>, positions |-> <<>>, toCancel |-> <<>>,
     readMids |-> FALSE, cancels |-> <<>>, orders |-> <<>>,
     call |-> 0, error |-> "none", pendingAtReject |-> {}]

\* What the venue may answer to openOrders: up to MaxOrders orders, the k-th
\* with order id 100 + k.
VenueOrders ==
    UNION {{[k \in 1..n |-> [coin |-> f[k], oid |-> 100 + k]] :
               f \in [1..n -> VenueCoins]} : n \in 0..MaxOrders}

Catalogs ==
    {[perp |-> p, spot |-> sp] : p \in SUBSET Symbols, sp \in SUBSET Symbols}

\* The venue's book of the user's perpetual positions: per coin no position
\* or a signed size in tenths (szi -2.5 is -25), and how often it has changed.
PerpCoins == <<"BTC", "ETH">>
NoPos == [has |-> FALSE, szi |-> 0]
NoPositions == [pos |-> [k \in 1..Len(PerpCoins) |-> NoPos], moves |-> 0]
NoSlip == [symbol |-> "", isBuy |-> FALSE, slippage |-> 0, px |-> 0]

OpIdle ==
    /\ exCfg = [use |-> FALSE, translator |-> FALSE]
    /\ catalog = [perp |-> {}, spot |-> {}]
    /\ venuePos = NoPositions
    /\ ops = <<>>
    /\ slipIn = NoSlip
    /\ slipOut = Undefined

\* Clients are built with or without a translator and with or without
\* useSymbolConversion; the translator's catalog lists each symbol as
\* perpetual, as spot or not at all.
CancelAllInit ==
    /\ exCfg \in [use : BOOLEAN, translator : BOOLEAN]
    /\ catalog \in {c \in Catalogs : c.perp \intersect c.spot = {}}
    /\ venuePos = NoPositions
    /\ ops = <<>>
    /\ slipIn = NoSlip
    /\ slipOut = Undefined

\* The application calls cancelAllOrders(symbol), cancelAllSpotOrders() or
\* cancelAllPerpOrders(); the operation awaits the open-orders read.
StartCancelAll(c, kind, symbol) ==
    /\ Len(ops) < MaxOps
    /\ kind \in CancelAllKinds
    /\ symbol \in (IF kind = "cancelAllOrders" THEN Symbols \union {""} ELSE {""})
    /\ ops' = Append(ops, NewOp(kind, c, 0, symbol, 0, 0))
    /\ UNCHANGED <<exCfg, catalog, venuePos, slipIn, slipOut,
                   nonceVars, writeVars, valVars, subVars, evVars, auxVars, asyncVars>>

\* The transport rejects the read the operation is waiting for.
ReadFail(i) ==
    /\ ops[i].pc \in {"reading", "mids"}
    /\ ops' = [ops EXCEPT ![i].pc = "rejected", ![i].error = "TransportError"]
    /\ UNCHANGED <<exCfg, catalog, venuePos, slipIn, slipOut,
                   nonceVars, writeVars, valVars, subVars, evVars, auxVars, asyncVars>>

\* The open-orders read resolves and the operation runs on: getAllAssets
\* (spot and perp only), the renaming loop, the filter, the empty check and
\* cancel() up to the point where it awaits the nonce.  Without a translator
\* getAllAssets and convertSymbol are calls on undefined.
OpenOrdersResolve(i, venueOrders) ==
    LET op == ops[i]
        fetched == openOrders(venueOrders)
        needsTranslator == op.kind # "cancelAllOrders" \/ Len(fetched) > 0
        shown == withDisplayCoins(fetched)
        selected == ordersToCancel(op.kind, op.symbol, shown)
        cancels == cancelsOf(selected)
        unknown == hasSymbolConversion /\
                   \E k \in 1..Len(cancels) : cancels[k].idx = Undefined
        read == [op EXCEPT !.openOrders = venueOrders] IN
    /\ op.kind \in CancelAllKinds
    /\ op.pc = "reading"
    /\ venueOrders \in VenueOrders
    /\ IF needsTranslator /\ ~exCfg.translator
       THEN /\ ops' = [ops EXCEPT ![i] = [read EXCEPT !.pc = "rejected",
                                                      !.error = "TypeError"]]
            /\ UNCHANGED calls
       ELSE IF noOrders(selected)
       THEN /\ ops' = [ops EXCEPT ![i] = [read EXCEPT !.pc = "rejected",
                                                      !.toCancel = selected,
                                                      !.error = "NoOrdersError"]]
            /\ UNCHANGED calls
       ELSE IF unknown
       THEN /\ ops' = [ops EXCEPT ![i] = [read EXCEPT !.pc = "rejected",
                                                      !.toCancel = selected,
                                                      !.error = "UnknownAssetError"]]
            /\ UNCHANGED calls
       ELSE /\ ops' = [ops EXCEPT ![i] = [read EXCEPT !.pc = "writing",
                                                      !.toCancel = selected,
                                                      !.cancels = cancels,
                                                      !.call = Len(calls) + 1]]
            /\ calls' = Append(calls, NewCall(op.client, op.kind, 0))
    /\ UNCHANGED <<exCfg, catalog, venuePos, slipIn, slipOut, signerLog, wire,
                   nonceVars, valVars, subVars, evVars, auxVars, asyncVars>>

----------------------------------------------------------------------------
(* getSlippagePrice                                                        *)

MaxPx == 300        \* reference prices are 0.01 .. MaxPx / 100 and 100

\* private DEFAULT_SLIPPAGE = 0.05, in percent.
DEFAULT_SLIPPAGE == 5

\* A reference price is a whole number of hundredths, a slippage a whole
\* number of percent, a computed price a whole number of ten-thousandths.
PxValues == (1..MaxPx) \union {10000}
Slippages == {DEFAULT_SLIPPAGE, 10}
SlipSymbols == {"BTC-PERP", "HYPE-USDC"}

\* symbol.includes('-USDC') on the symbols of the model.
includesUSDC(symbol) == symbol = "HYPE-USDC"

\* px.toString().split('.')[1]?.length || 0
decimalsOf(px) ==
    IF px % 100 = 0 THEN 0 ELSE IF px % 10 = 0 THEN 1 ELSE 2

\* Number(x.toFixed(digits)) for x given in ten-thousandths: the nearest
\* number with that many decimals.  Exactly half way the product's binary
\* rounding error decides, so either neighbour is possible.
toFixed(x, digits) ==
    LET unit == IF digits >= 4 THEN 1 ELSE 10 ^ (4 - digits)
        down == x - (x % unit) IN
    IF x % unit = 0 THEN {x}
    ELSE IF 2 * (x % unit) < unit THEN {down}
    ELSE IF 2 * (x % unit) > unit THEN {down + unit}
    ELSE {down, down + unit}

\* The number that is not one: what Number(undefined) gives and every
\* product and rounding of it.
NaN == 0 - 2

\* px = Number(allMids[symbol]): allMids has no entry for a symbol the venue
\* does not list under that name.
Number(v) == IF v = Undefined THEN NaN ELSE v

\* getSlippagePrice(symbol, isBuy, slippage, px) once px is known: the
\* prices it can return.
getSlippagePrice(symbol, isBuy, slippage, px) ==
    LET isSpotSymbol == includesUSDC(symbol)
        decimals == decimalsOf(px)
        moved == px * (IF isBuy THEN 100 + slippage ELSE 100 - slippage) IN
    IF px = NaN THEN {NaN}
    ELSE toFixed(moved, IF isSpotSymbol THEN 8 ELSE Max(0, decimals - 1))

SlipInit ==
    /\ slipIn \in [symbol : SlipSymbols, isBuy : BOOLEAN,
                   slippage : Slippages, px : PxValues]
    /\ slipOut = Undefined

Slip ==
    /\ slipOut = Undefined
    /\ slipOut' \in getSlippagePrice(slipIn.symbol, slipIn.isBuy,
                                     slipIn.slippage, slipIn.px)
    /\ UNCHANGED <<slipIn, exCfg, catalog, venuePos, ops,
                   nonceVars, writeVars, valVars, subVars, evVars, auxVars, asyncVars>>

----------------------------------------------------------------------------
(* marketClose and closeAllPositions                                       *)

MaxMoves == 1       \* changes of the user's positions at the venue

PosValues == {NoPos} \union {[has |-> TRUE, szi |-> z] : z \in {0 - 25, 0, 25}}
MidPrices == {10000}
Abs(x) == IF x < 0 THEN 0 - x ELSE x

\* clearinghouseState(): positions.assetPositions, the coins through
\* convertResponse when hasSymbolConversion is set.
clearinghouseState ==
    LET held == SelectSeq([k \in 1..Len(PerpCoins) |-> k],
                          LAMBDA k : venuePos.pos[k].has) IN
    [n \in 1..Len(held) |->
        [coin |-> IF hasSymbolConversion THEN convertSymbol(PerpCoins[held[n]])
                  ELSE PerpCoins[held[n]],
         szi |-> venuePos.pos[held[n]].szi]]

\* A variant of the search that takes the first position, whatever its coin.
findPosition_first(positions, symbol) == IF Len(positions) > 0 THEN 1 ELSE 0

\* marketClose's loop: the first position with item.coin === symbol; 0 when
\* the loop ends without one.
findPosition(positions, symbol) ==
    LET hits == {k \in 1..Len(positions) : positions[k].coin = symbol} IN
    IF hits = {} THEN 0 ELSE CHOOSE k \in hits : \A j \in hits : k <= j

\* A variant of the order that buys when the position is long.
orderRequest_sideOfPosition(symbol, szi, size, price) ==
    [a |-> symbol, b |-> szi > 0,
     s |-> IF size \notin {Undefined, 0} THEN size ELSE Abs(szi),
     p |-> price, tif |-> "Ioc", r |-> TRUE]

\* marketClose's orderRequest.orders[0]: closeSize = size || Math.abs(szi),
\* isBuy = szi < 0.  s and p stand for the decimal strings of the numbers.
orderRequest(symbol, szi, size, price) ==
    [a |-> symbol, b |-> szi < 0,
     s |-> IF size \notin {Undefined, 0} THEN size ELSE Abs(szi),
     p |-> price, tif |-> "Ioc", r |-> TRUE]

\* A variant of the enumeration that keeps zero-size positions.
nonzero_all(positions) == positions

\* closeAllPositions: the positions with parseFloat(item.szi) !== 0.
nonzero(positions) == SelectSeq(positions, LAMBDA x : x.szi # 0)

CloseInit ==
    /\ exCfg \in [use : BOOLEAN, translator : {TRUE}]
    /\ catalog = [perp |-> {}, spot |-> {}]
    /\ venuePos \in [pos : [1..Len(PerpCoins) -> PosValues], moves : {0}]
    /\ ops = <<>>
    /\ slipIn = NoSlip
    /\ slipOut = Undefined

\* The operations the application has started itself.
TopLevel == {i \in 1..Len(ops) : ops[i].parent = 0}
ChildrenOf(p) == {i \in 1..Len(ops) : ops[i].parent = p}

\* How an operation has ended, if it has: by its own failure, or as the
\* write it issued has.
Settled(i) ==
    IF ops[i].pc = "rejected" THEN [state |-> "rejected", error |-> ops[i].error]
    ELSE IF ops[i].call # 0 /\ calls[ops[i].call].pc = "rejected"
    THEN [state |-> "rejected", error |-> calls[ops[i].call].error]
    ELSE IF ops[i].call # 0 /\ calls[ops[i].call].pc = "returned"
    THEN [state |-> "fulfilled", error |-> "none"]
    ELSE [state |-> "pending", error |-> "none"]

\* A variant of Promise.all that waits for every promise to settle.
promiseAll_allSettled(p) ==
    LET rejected == {i \in ChildrenOf(p) : Settled(i).state = "rejected"} IN
    IF \E i \in ChildrenOf(p) : Settled(i).state = "pending"
    THEN [state |-> "pending", error |-> "none"]
    ELSE IF rejected # {}
    THEN [state |-> "rejected",
          error |-> Settled(CHOOSE i \in rejected : \A j \in rejected : i <= j).error]
    ELSE [state |-> "fulfilled", error |-> "none"]

\* Promise.all(closeOrders): rejected as soon as one promise is rejected,
\* with its error; fulfilled when all are fulfilled.
promiseAll(p) ==
    LET rejected == {i \in ChildrenOf(p) : Settled(i).state = "rejected"} IN
    IF rejected # {}
    THEN [state |-> "rejected",
          error |-> Settled(CHOOSE i \in rejected : \A j \in rejected : i <= j).error]
    ELSE IF \A i \in ChildrenOf(p) : Settled(i).state = "fulfilled"
    THEN [state |-> "fulfilled", error |-> "none"]
    ELSE [state |-> "pending", error |-> "none"]

\* A closeAllPositions whose Promise.all has settled and whose continuation
\* is queued: it runs before anything else does.
SettlePending ==
    \E p \in 1..Len(ops) : ops[p].pc = "waiting" /\ promiseAll(p).state # "pending"

\* The venue changes one of the user's positions while a clearinghouse read
\* is under way.
VenueMove(k, pos) ==
    /\ ~SettlePending
    /\ venuePos.moves < MaxMoves
    /\ \E i \in 1..Len(ops) : ops[i].pc = "reading"
    /\ pos \in PosValues
    /\ pos # venuePos.pos[k]
    /\ venuePos' = [pos |-> [venuePos.pos EXCEPT ![k] = pos],
                    moves |-> venuePos.moves + 1]
    /\ UNCHANGED <<exCfg, catalog, ops, slipIn, slipOut,
                   nonceVars, writeVars, valVars, subVars, evVars, auxVars, asyncVars>>

\* The application calls marketClose(symbol, size, px); size and px are
\* Undefined when not given.  The operation awaits the clearinghouse read.
StartMarketClose(c, symbol, size, px) ==
    /\ ~SettlePending
    /\ Cardinality(TopLevel) < MaxOps
    /\ ops' = Append(ops, NewOp("marketClose", c, 0, symbol, size, px))
    /\ UNCHANGED <<exCfg, catalog, venuePos, slipIn, slipOut,
                   nonceVars, writeVars, valVars, subVars, evVars, auxVars, asyncVars>>

\* The application calls closeAllPositions().
StartCloseAllPositions(c) ==
    /\ ~SettlePending
    /\ Cardinality(TopLevel) < MaxOps
    /\ ops' = Append(ops, NewOp("closeAllPositions", c, 0, "", Undefined, Undefined))
    /\ UNCHANGED <<exCfg, catalog, venuePos, slipIn, slipOut,
                   nonceVars, writeVars, valVars, subVars, evVars, auxVars, asyncVars>>

\* marketClose from the order request on: this.order(orderRequest) resolves
\* the asset when hasSymbolConversion is set and goes on to await the nonce.
SubmitOrder(i, op, order) ==
    IF hasSymbolConversion /\ getAssetIndex(order.a) = Undefined
    THEN /\ ops' = [ops EXCEPT ![i] = [op EXCEPT !.pc = "rejected",
                                                 !.error = "UnknownAssetError"]]
         /\ UNCHANGED calls
    ELSE /\ ops' = [ops EXCEPT ![i] = [op EXCEPT !.pc = "writing",
                                                 !.orders = <<order>>,
                                                 !.call = Len(calls) + 1]]
         /\ calls' = Append(calls, NewCall(op.client, "marketClose", 0))

\* A variant of the read that takes over the snapshot of the
\* closeAllPositions that started the marketClose.
positionsRead_parentSnapshot(i) ==
    IF ops[i].parent # 0 THEN ops[ops[i].parent].positions ELSE clearinghouseState

\* marketClose: const positions = await this.clearinghouseState({user}),
\* the venue's answer at the time the read resolves.
positionsRead(i) == clearinghouseState

\* marketClose: the clearinghouse read resolves.  No position for the
\* symbol: the operation throws.  Otherwise the price is computed from px,
\* or the operation awaits allMids when px was not given.
MarketCloseRead(i) ==
    LET op == [ops[i] EXCEPT !.positions = positionsRead(i)]
        k == findPosition(op.positions, op.symbol) IN
    /\ ~SettlePending
    /\ ops[i].kind = "marketClose"
    /\ ops[i].pc = "reading"
    /\ IF k = 0
       THEN /\ ops' = [ops EXCEPT ![i] = [op EXCEPT !.pc = "rejected",
                                                    !.error = "PositionNotFoundError"]]
            /\ UNCHANGED calls
       ELSE IF op.px \in {Undefined, 0}
       THEN /\ ops' = [ops EXCEPT ![i] = [op EXCEPT !.pc = "mids"]]
            /\ UNCHANGED calls
       ELSE \E price \in getSlippagePrice(op.symbol, op.positions[k].szi < 0,
                                          DEFAULT_SLIPPAGE, op.px) :
               SubmitOrder(i, op, orderRequest(op.symbol, op.positions[k].szi,
                                               op.size, price))
    /\ UNCHANGED <<exCfg, catalog, venuePos, slipIn, slipOut, signerLog, wire,
                   nonceVars, valVars, subVars, evVars, auxVars, asyncVars>>

\* marketClose: allMids resolves with the symbol's mid price, or without an
\* entry for the symbol (mid = Undefined).
MidsResolve(i, mid) ==
    LET op == [ops[i] EXCEPT !.readMids = TRUE]
        k == findPosition(op.positions, op.symbol) IN
    /\ ~SettlePending
    /\ ops[i].pc = "mids"
    /\ mid \in MidPrices \union {Undefined}
    /\ \E price \in getSlippagePrice(op.symbol, op.positions[k].szi < 0,
                                     DEFAULT_SLIPPAGE, Number(mid)) :
          SubmitOrder(i, op, orderRequest(op.symbol, op.positions[k].szi,
                                          op.size, price))
    /\ UNCHANGED <<exCfg, catalog, venuePos, slipIn, slipOut, signerLog, wire,
                   nonceVars, valVars, subVars, evVars, auxVars, asyncVars>>

\* closeAllPositions: the clearinghouse read resolves; one marketClose is
\* called per nonzero position, each running up to its own clearinghouse
\* read, and the operation awaits Promise.all of them.
CloseAllRead(p) ==
    LET read == clearinghouseState
        picked == nonzero(read) IN
    /\ ~SettlePending
    /\ ops[p].kind = "closeAllPositions"
    /\ ops[p].pc = "reading"
    /\ ops' = [ops EXCEPT ![p].pc = "waiting", ![p].positions = read] \o
              [n \in 1..Len(picked) |->
                  NewOp("marketClose", ops[p].client, p, picked[n].coin,
                        Undefined, Undefined)]
    /\ UNCHANGED <<exCfg, catalog, venuePos, slipIn, slipOut,
                   nonceVars, writeVars, valVars, subVars, evVars, auxVars, asyncVars>>

\* closeAllPositions: the continuation after await Promise.all(closeOrders).
CloseAllSettle(p) ==
    LET out == promiseAll(p) IN
    /\ ops[p].pc = "waiting"
    /\ out.state # "pending"
    /\ ops' = [ops EXCEPT
                 ![p].pc = IF out.state = "rejected" THEN "rejected" ELSE "resolved",
                 ![p].error = out.error,
                 ![p].pendingAtReject =
                     IF out.state = "rejected"
                     THEN {i \in ChildrenOf(p) : Settled(i).state = "pending"}
                     ELSE {}]
    /\ UNCHANGED <<exCfg, catalog, venuePos, slipIn, slipOut,
                   nonceVars, writeVars, valVars, subVars, evVars, auxVars, asyncVars>>

----------------------------------------------------------------------------
(* MulticallClient: token balances in one batched call                     *)

MaxTokens == 2      \* tokens in one getTokenBalances query
MaxDigits == 2      \* characters after the prefix of one raw result

TokenAddrs == {"0xA", "0xB"}
NoSymbol == "undefined"

\* TokenInfo: symbol and decimals are optional.
TokenInfos ==
    [address : TokenAddrs, symbol : {NoSymbol, "TKN"}, decimals : {Undefined, 2}]
TokenLists == UNION {[1..n -> TokenInfos] : n \in 0..MaxTokens}

\* One entry of returnData: no value at all, or a string with or without
\* the 0x prefix whose further characters are hexadecimal digits or not.
HexChars == {"0", "2", "z"}
NoData == [missing |-> TRUE, prefix |-> FALSE, digits |-> <<>>]
RawData ==
    {NoData} \union
    [missing : {FALSE}, prefix : BOOLEAN,
     digits : UNION {[1..n -> HexChars] : n \in 0..MaxDigits}]

\* BigInt(hexValue) on "0x" followed by the digits: the number they spell in
\* base 16, a SyntaxError when one of them is no hexadecimal digit.
BigInt(digits) ==
    LET digit(c) == CASE c = "0" -> 0 [] c = "2" -> 2 [] OTHER -> Undefined
        value[n \in 0..Len(digits)] ==
            IF n = 0 THEN 0 ELSE 16 * value[n - 1] + digit(digits[n]) IN
    IF \E n \in 1..Len(digits) : digit(digits[n]) = Undefined
    THEN [thrown |-> TRUE, value |-> 0]
    ELSE [thrown |-> FALSE, value |-> value[Len(digits)]]

\* A formatted balance: absent, or the whole and the fractional part of the
\* decimal string.
NoFormatted == [present |-> FALSE, whole |-> 0, frac |-> 0]
FormattedZero == [present |-> TRUE, whole |-> 0, frac |-> 0]
Pow10(d) == IF d = 0 THEN 1 ELSE IF d = 2 THEN 100 ELSE 10
formatUnits(value, decimals) ==
    [present |-> TRUE, whole |-> value \div Pow10(decimals),
     frac |-> value % Pow10(decimals)]

\* A variant of prepareCalldata that lists the tokens last to first.
prepareCalldata_reversed(tokens) ==
    [i \in 1..Len(tokens) |-> tokens[Len(tokens) + 1 - i].address]

\* prepareCalldata: one balanceOf(walletAddress) entry per token, in order.
prepareCalldata(tokens) == [i \in 1..Len(tokens) |-> tokens[i].address]

ZeroBalance(token) ==
    [address |-> token.address, symbol |-> token.symbol, balance |-> 0,
     decimals |-> token.decimals, formattedBalance |-> FormattedZero]

\* A variant of the loop body that raises on a result it cannot decode.
tokenBalance_strict(token, data, hasReturnData) ==
    IF ~hasReturnData \/ data.missing \/ BigInt(data.digits).thrown
    THEN [address |-> "thrown", symbol |-> NoSymbol, balance |-> 0,
          decimals |-> Undefined, formattedBalance |-> NoFormatted]
    ELSE [address |-> token.address, symbol |-> token.symbol,
          balance |-> BigInt(data.digits).value, decimals |-> token.decimals,
          formattedBalance |-> IF token.decimals # Undefined
                               THEN formatUnits(BigInt(data.digits).value,
                                                token.decimals)
                               ELSE NoFormatted]

\* getTokenBalances, the body of its loop for one token.  returnData[i] on
\* an undefined returnData throws into the inner catch.
tokenBalance(token, data, hasReturnData) ==
    LET parsed == BigInt(data.digits)
        balance == IF parsed.thrown THEN 0 ELSE parsed.value IN
    IF ~hasReturnData THEN ZeroBalance(token)
    ELSE IF data.missing \/ data.digits = <<>> THEN ZeroBalance(token)
    ELSE [address |-> token.address, symbol |-> token.symbol,
          balance |-> balance, decimals |-> token.decimals,
          formattedBalance |-> IF token.decimals # Undefined
                               THEN formatUnits(balance, token.decimals)
                               ELSE NoFormatted]

\* What client.readContract may do: reject, or resolve with a block number
\* and the return data (possibly none, possibly entries without a value).
BlockNumbers == {7}
Answers(n) ==
    [ok : {FALSE}, blockNumber : {0}, hasReturnData : {FALSE},
     returnData : {[i \in 1..n |-> NoData]}] \union
    [ok : {TRUE}, blockNumber : BlockNumbers, hasReturnData : {FALSE},
     returnData : {[i \in 1..n |-> NoData]}] \union
    [ok : {TRUE}, blockNumber : BlockNumbers, hasReturnData : {TRUE},
     returnData : [1..n -> RawData]]

NoQuery == [op |-> "none", tokens |-> <<>>, answer |-> <<>>, native |-> 0]
NoResult ==
    [thrown |-> FALSE, requests |-> <<>>, hasBlockNumber |-> FALSE,
     blockNumber |-> 0, balances |-> <<>>]

\* getTokenBalances(walletAddress, tokens): one aggregate call; the outer
\* catch returns {walletAddress, balances: []}.
getTokenBalances(tokens, answer) ==
    [thrown |-> FALSE, requests |-> <<prepareCalldata(tokens)>>,
     hasBlockNumber |-> answer.ok, blockNumber |-> answer.blockNumber,
     balances |-> IF answer.ok
                  THEN [i \in 1..Len(tokens) |->
                           tokenBalance(tokens[i], answer.returnData[i],
                                        answer.hasReturnData)]
                  ELSE <<>>]

NativeToken == [address |-> "0x0", symbol |-> "HYPE", decimals |-> 18]
NativeAnswers == [ok : BOOLEAN, value : {0, 5}]

\* getNativeBalance(walletAddress): BigInt(result || 0) formatted to 18
\* decimals; the catch returns a zero balance.
getNativeBalance(answer) ==
    [thrown |-> FALSE, requests |-> <<<<"getEthBalance">>>>,
     hasBlockNumber |-> FALSE, blockNumber |-> 0,
     balances |-> <<IF answer.ok
                    THEN [address |-> NativeToken.address,
                          symbol |-> NativeToken.symbol,
                          balance |-> answer.value,
                          decimals |-> NativeToken.decimals,
                          formattedBalance |->
                              [present |-> TRUE, whole |-> 0,
                               frac |-> answer.value]]
                    ELSE [address |-> NativeToken.address,
                          symbol |-> NativeToken.symbol,
                          balance |-> 0,
                          decimals |-> NativeToken.decimals,
                          formattedBalance |-> FormattedZero]>>]

McIdle == mcIn = NoQuery /\ mcOut = NoResult

\* The application queries the balances of a list of tokens: the call runs
\* up to await this.client.readContract.
GetTokenBalances(tokens) ==
    /\ mcIn = NoQuery
    /\ mcIn' = [op |-> "getTokenBalances", tokens |-> tokens,
                answer |-> <<>>, native |-> 0]
    /\ UNCHANGED <<mcOut, chainIn, chainOut, acts, defaults,
                   nonceVars, writeVars, valVars, subVars, evVars, opVars, asyncVars>>

\* The aggregate call settles and getTokenBalances runs to its end.
AggregateSettles(answer) ==
    /\ mcIn.op = "getTokenBalances"
    /\ mcIn.answer = <<>>
    /\ mcIn' = [mcIn EXCEPT !.answer = <<answer>>]
    /\ mcOut' = getTokenBalances(mcIn.tokens, answer)
    /\ UNCHANGED <<chainIn, chainOut, acts, defaults,
                   nonceVars, writeVars, valVars, subVars, evVars, opVars, asyncVars>>

\* The application queries the native balance and the call settles.
GetNativeBalance(answer) ==
    /\ mcIn = NoQuery
    /\ mcIn' = [op |-> "getNativeBalance", tokens |-> <<>>,
                answer |-> <<[ok |-> answer.ok, blockNumber |-> 0,
                              hasReturnData |-> FALSE, returnData |-> <<>>]>>,
                native |-> answer.value]
    /\ mcOut' = getNativeBalance(answer)
    /\ UNCHANGED <<chainIn, chainOut, acts, defaults,
                   nonceVars, writeVars, valVars, subVars, evVars, opVars, asyncVars>>

----------------------------------------------------------------------------
(* The signature chain id                                                  *)

\* A hex string is the sequence of its characters.
HexDigits == <<"0", "1", "2", "3", "4", "5", "6", "7",
               "8", "9", "a", "b", "c", "d", "e", "f">>
RECURSIVE toString16(_)
toString16(n) ==
    IF n < 16 THEN <<HexDigits[n + 1]>>
    ELSE toString16(n \div 16) \o <<HexDigits[(n % 16) + 1]>>
Hex0x(n) == <<"0", "x">> \o toString16(n)

\* "0xa4b1" and "0x66eee".
MainnetChainId == <<"0", "x", "a", "4", "b", "1">>
TestnetChainId == <<"0", "x", "6", "6", "e", "e", "e">>

\* args.signatureChainId: absent, a literal, or a producer.
ConfiguredChainId == Hex0x(1)
ExplicitKinds == {"none", "literal", "producer"}

\* The wallet: which of the type guards it passes, whether it has the
\* member the guess asks for, and what its chain query does: it rejects,
\* or resolves with a number (viem, ethers) or, for window.ethereum, with
\* the hex string itself or with an array holding it.
WalletKinds == {"viem", "ethers", "window", "other"}
ChainNumbers == {1, 42161}
WalletAnswers(kind) ==
    [ok : {FALSE}, shape : {"none"}, number : {0}] \union
    [ok : {TRUE},
     shape : IF kind = "window" THEN {"string", "array"} ELSE {"number"},
     number : ChainNumbers]
ChainInputs ==
    UNION {[explicit : ExplicitKinds, producerOk : BOOLEAN, kind : {k},
            exposes : BOOLEAN, answer : WalletAnswers(k), isTestnet : BOOLEAN]
           : k \in WalletKinds}

NoChainIn ==
    [explicit |-> "none", producerOk |-> FALSE, kind |-> "unset",
     exposes |-> FALSE, answer |-> [ok |-> FALSE, shape |-> "none", number |-> 0],
     isTestnet |-> FALSE]
NoChainOut == [thrown |-> FALSE, error |-> "none", value |-> <<>>]

\* _guessSignatureChainId.  const [chainId] = await this.wallet.request(...)
\* takes the first element of what the request resolved with: of a string,
\* its first character.
guessSignatureChainId(in) ==
    LET default == IF in.isTestnet THEN TestnetChainId ELSE MainnetChainId
        asks == \/ in.kind \in {"viem", "ethers"} /\ in.exposes
                \/ in.kind = "window" IN
    IF ~asks THEN [thrown |-> FALSE, error |-> "none", value |-> default]
    ELSE IF ~in.answer.ok
    THEN [thrown |-> TRUE, error |-> "WalletError", value |-> <<>>]
    ELSE IF in.kind = "window"
    THEN [thrown |-> FALSE, error |-> "none",
          value |-> IF in.answer.shape = "string"
                    THEN <<Head(Hex0x(in.answer.number))>>
                    ELSE Hex0x(in.answer.number)]
    ELSE [thrown |-> FALSE, error |-> "none", value |-> Hex0x(in.answer.number)]

\* _getSignatureChainId over this.signatureChainId =
\* args.signatureChainId ?? this._guessSignatureChainId.
getSignatureChainId(in) ==
    IF in.explicit = "literal"
    THEN [thrown |-> FALSE, error |-> "none", value |-> ConfiguredChainId]
    ELSE IF in.explicit = "producer"
    THEN IF in.producerOk
         THEN [thrown |-> FALSE, error |-> "none", value |-> ConfiguredChainId]
         ELSE [thrown |-> TRUE, error |-> "ProducerError", value |-> <<>>]
    ELSE guessSignatureChainId(in)

\* The client resolves the signature chain id.
ResolveChainId(in) ==
    /\ chainIn = NoChainIn
    /\ chainIn' = in
    /\ chainOut' = getSignatureChainId(in)
    /\ UNCHANGED <<mcIn, mcOut, acts, defaults,
                   nonceVars, writeVars, valVars, subVars, evVars, opVars, asyncVars>>

----------------------------------------------------------------------------
(* order() and cancel(): from the arguments to the action                  *)

MaxActs == 2        \* order()/cancel() calls in one behaviour

\* An asset reference `a`: a number, or a string (typeof a === 'string').
ByIndex(n) == [str |-> "", num |-> n]
BySymbol(symbol) == [str |-> symbol, num |-> Undefined]

\* The item lists the application passes: indices, known symbols and a
\* symbol the translator does not know, alone and next to one it knows.
ItemLists ==
    {<<ByIndex(0)>>, <<BySymbol("BTC-PERP")>>,
     <<BySymbol("ETH-PERP"), BySymbol("DOGE-PERP")>>,
     <<BySymbol("DOGE-PERP"), ByIndex(1)>>}

\* args.vaultAddress ("" when omitted) and args.expiresAfter (Undefined
\* when omitted); the configured defaults: defaultVaultAddress ("" when
\* not configured) and defaultExpiresAfter, absent, a number or a producer.
ArgVaults == {"", "0xArgVault"}
ArgExpires == {Undefined, 77}
DefaultsInit ==
    defaults \in [vault : {"", "0xDefaultVault"},
                  expires : {"none", "literal", "producer"}, evals : {0}]
NoDefaults == [vault |-> "", expires |-> "none", evals |-> 0]

\* A variant of the destructuring default that lets the configured value
\* win.
withDefault_configuredFirst(given, absent, configured) ==
    IF configured # absent THEN configured ELSE given

\* Destructuring with a default, { x = configured } = args: the default is
\* taken when the property is undefined.
withDefault(given, absent, configured) ==
    IF given = absent THEN configured ELSE given

\* _getDefaultExpiresAfter(): the number, or what the producer returns on
\* this call - a new value every time it is called - or undefined.
getDefaultExpiresAfter ==
    CASE defaults.expires = "literal"  -> [value |-> 500, evals |-> 0]
      [] defaults.expires = "producer" -> [value |-> 1001 + defaults.evals,
                                           evals |-> 1]
      [] OTHER -> [value |-> Undefined, evals |-> 0]

\* The items of the action: with hasSymbolConversion every string is
\* replaced by getAssetIndex of it; without it the items are taken as they
\* are.
convertedActionArgs(items) ==
    [k \in 1..Len(items) |->
        IF hasSymbolConversion /\ items[k].str # ""
        THEN ByIndex(getAssetIndex(items[k].str))
        ELSE items[k]]

\* A variant of the check that looks at the first item only.
unknownAsset_firstOnly(items) ==
    /\ hasSymbolConversion
    /\ items[1].str # "" /\ getAssetIndex(items[1].str) = Undefined

\* this.getAssetIndex throws Unknown asset for one of the items:
\* Promise.all over the items rejects.
unknownAsset(items) ==
    /\ hasSymbolConversion
    /\ \E k \in 1..Len(items) :
          items[k].str # "" /\ getAssetIndex(items[k].str) = Undefined

\* The application calls order(args) or cancel(args): the destructuring of
\* args, with the default of expiresAfter evaluated only if the property is
\* undefined.
StartAction(c, kind, items, argVault, argExpires) ==
    LET d == getDefaultExpiresAfter
        needs == argExpires = Undefined IN
    /\ Len(acts) < MaxActs
    /\ acts' = Append(acts,
          [kind |-> kind, client |-> c, items |-> items,
           argVault |-> argVault, argExpires |-> argExpires,
           vaultAddress |-> withDefault(argVault, "", defaults.vault),
           expiresAfter |-> IF needs THEN d.value ELSE argExpires,
           evals |-> IF needs THEN d.evals ELSE 0,
           evalsBefore |-> defaults.evals,
           action |-> <<>>, pc |-> "converting", error |-> "none", call |-> 0])
    /\ defaults' = [defaults EXCEPT !.evals = @ + (IF needs THEN d.evals ELSE 0)]
    /\ UNCHANGED <<mcIn, mcOut, chainIn, chainOut,
                   nonceVars, writeVars, valVars, subVars, evVars, opVars, asyncVars>>

\* The conversion of the items settles: the call throws on an unknown
\* asset, or goes on to await this.nonceManager() with the action's items.
ConvertAssets(i) ==
    /\ acts[i].pc = "converting"
    /\ IF unknownAsset(acts[i].items)
       THEN /\ acts' = [acts EXCEPT ![i].pc = "rejected",
                                    ![i].error = "UnknownAssetError"]
            /\ UNCHANGED calls
       ELSE /\ acts' = [acts EXCEPT ![i].pc = "built",
                                    ![i].action = convertedActionArgs(acts[i].items),
                                    ![i].call = Len(calls) + 1]
            /\ calls' = Append(calls, NewCall(acts[i].client, acts[i].kind, 0))
    /\ UNCHANGED <<mcIn, mcOut, chainIn, chainOut, defaults, signerLog, wire,
                   nonceVars, valVars, subVars, evVars, opVars, asyncVars>>

----------------------------------------------------------------------------
(* delay and the AbortSignal.any polyfill                                  *)
(* (src/src/utils/compatibility/async.ts, abort-signal.ts)                 *)

NumSignals == 2     \* AbortSignals the application holds
MaxDelays == 2      \* delay() calls in one behaviour
MaxMs == 2          \* a delay lasts 1..MaxMs ticks
MaxTick == 3        \* the timers' clock runs from 0 to MaxTick
MaxAnys == 2        \* AbortSignal.any calls in one behaviour

SignalIds == 1..NumSignals
NoSignal == 0
Reasons == {"r1", "r2"}
NoReason == "none"

\* A signal: whether it is aborted, the reason it carries, and whether it
\* has addEventListener (typeof signal.addEventListener === 'function').
FreshSignal(events) == [aborted |-> FALSE, reason |-> NoReason, events |-> events]

\* resolve() and reject() of a promise: the first call settles it, a later
\* call does nothing.
settle(d, outcome, error) ==
    IF d.promise = "pending"
    THEN [d EXCEPT !.promise = outcome, !.error = error, !.settledAt = tick]
    ELSE d

\* A variant of the entry check that never finds the signal aborted.
alreadyAborted_never(s) == FALSE

\* delay: options?.signal?.aborted
alreadyAborted(s) == s # NoSignal /\ sigs[s].aborted

\* clearTimeout(timer): a timer that has not fired is cancelled.
clearTimeout(d) == IF d.timer = "armed" THEN [d EXCEPT !.timer = "cleared"] ELSE d

\* delay's abort listener ({ once: true }): clearTimeout(timer); reject(...).
delayAbortListener(d) ==
    [settle(clearTimeout(d), "rejected", "AbortError") EXCEPT !.listening = FALSE]

\* A variant of the search that takes the first signal, aborted or not.
abortedInput_first(signals, inputs) == IF Len(inputs) > 0 THEN 1 ELSE 0

\* for (const signal of signals) if (signal && signal.aborted): the position
\* of the first aborted input, 0 when the loop ends without one.
abortedInput(signals, inputs) ==
    LET hits == {k \in 1..Len(inputs) : signals[inputs[k]].aborted} IN
    IF hits = {} THEN 0 ELSE CHOOSE k \in hits : \A h \in hits : k <= h

\* controller.abort(reason): the first call aborts the signal with that
\* reason; a later call does nothing.
controllerAbort(a, reason) ==
    IF a.aborted THEN a ELSE [a EXCEPT !.aborted = TRUE, !.reason = reason]

\* cleanup: abortHandler is removed from every input and the interval is
\* cleared.
cleanup(a) == [a EXCEPT !.registered = {}, !.polling = FALSE]

\* anyPolyfill's abortHandler, called by an input's abort event or by the
\* interval: controller.abort(signal.reason) for the first aborted input,
\* then cleanup (which the derived signal's own abort listener has run
\* already).
abortHandler(signals, a) ==
    LET k == abortedInput(signals, a.inputs) IN
    IF k = 0 THEN a
    ELSE cleanup(controllerAbort(a, signals[a.inputs[k]].reason))

\* anyPolyfill(signals): the derived signal right after the call.
anyPolyfill(signals, inputs) ==
    LET k == abortedInput(signals, inputs)
        new == [inputs |-> inputs, aborted |-> FALSE, reason |-> NoReason,
                registered |-> {}, polling |-> FALSE, madeAborted |-> FALSE] IN
    IF k # 0
    THEN [controllerAbort(new, signals[inputs[k]].reason) EXCEPT !.madeAborted = TRUE]
    ELSE [new EXCEPT !.registered = {inputs[j] : j \in {i \in 1..Len(inputs) :
                                                          signals[inputs[i]].events}},
                     !.polling = TRUE]

InputLists == {<<s>> : s \in SignalIds} \union
              {<<s, t>> : s, t \in SignalIds}

AsyncIdle ==
    /\ tick = 0
    /\ sigs = [s \in SignalIds |-> FreshSignal(TRUE)]
    /\ delays = <<>>
    /\ anys = <<>>

\* delay is given real AbortSignals; AbortSignal.any is polyfilled where a
\* signal may come without addEventListener.
DelayInit ==
    /\ tick = 0
    /\ sigs = [s \in SignalIds |-> FreshSignal(TRUE)]
    /\ delays = <<>>
    /\ anys = <<>>

AnyInit ==
    /\ tick = 0
    /\ sigs \in [SignalIds -> {FreshSignal(TRUE), FreshSignal(FALSE)}]
    /\ delays = <<>>
    /\ anys = <<>>

\* The application aborts signal s with a reason: the abort event is
\* dispatched and every listener registered on s runs before abort returns.
AbortSignal(s, reason) ==
    LET after == [sigs EXCEPT ![s].aborted = TRUE, ![s].reason = reason] IN
    /\ ~sigs[s].aborted
    /\ sigs' = after
    /\ delays' = [d \in 1..Len(delays) |->
                    IF delays[d].signal = s /\ delays[d].listening
                    THEN delayAbortListener(delays[d]) ELSE delays[d]]
    /\ anys' = [a \in 1..Len(anys) |->
                  IF s \in anys[a].registered
                  THEN abortHandler(after, anys[a]) ELSE anys[a]]
    /\ UNCHANGED <<tick, nonceVars, writeVars, valVars, subVars, evVars, opVars, auxVars>>

\* delay(ms, { signal }): the executor runs.  An aborted signal rejects the
\* promise and nothing else happens; otherwise the timer is started and the
\* abort listener is registered on the signal, when there is one.
StartDelay(ms, s) ==
    LET new == [ms |-> ms, signal |-> s, startedAt |-> tick,
                abortedAtStart |-> s # NoSignal /\ sigs[s].aborted,
                timer |-> "none", listening |-> FALSE,
                promise |-> "pending", error |-> "none", settledAt |-> 0] IN
    /\ Len(delays) < MaxDelays
    /\ tick + ms <= MaxTick
    /\ delays' = Append(delays,
          IF alreadyAborted(s)
          THEN settle(new, "rejected", "AbortError")
          ELSE [new EXCEPT !.timer = "armed", !.listening = s # NoSignal])
    /\ UNCHANGED <<tick, sigs, anys, nonceVars, writeVars, valVars, subVars, evVars, opVars, auxVars>>

\* Time passes.
Tick ==
    /\ tick < MaxTick
    /\ tick' = tick + 1
    /\ UNCHANGED <<sigs, delays, anys, nonceVars, writeVars, valVars, subVars, evVars, opVars, auxVars>>

\* The timer of delay d fires, not before its ms have passed: resolve().
TimerFires(d) ==
    /\ delays[d].timer = "armed"
    /\ tick >= delays[d].startedAt + delays[d].ms
    /\ delays' = [delays EXCEPT ![d] = settle([delays[d] EXCEPT !.timer = "fired"],
                                              "resolved", "none")]
    /\ UNCHANGED <<tick, sigs, anys, nonceVars, writeVars, valVars, subVars, evVars, opVars, auxVars>>

\* AbortSignal.any(inputs) through the polyfill.
CreateAny(inputs) ==
    /\ Len(anys) < MaxAnys
    /\ anys' = Append(anys, anyPolyfill(sigs, inputs))
    /\ UNCHANGED <<tick, sigs, delays, nonceVars, writeVars, valVars, subVars, evVars, opVars, auxVars>>

\* setInterval(abortHandler, 100): the interval of derived signal a comes
\* round.
PollAny(a) ==
    /\ anys[a].polling
    /\ anys' = [anys EXCEPT ![a] = abortHandler(sigs, anys[a])]
    /\ UNCHANGED <<tick, sigs, delays, nonceVars, writeVars, valVars, subVars, evVars, opVars, auxVars>>

AuxIdle ==
    /\ McIdle
    /\ chainIn = NoChainIn /\ chainOut = NoChainOut
    /\ acts = <<>>
    /\ defaults = NoDefaults
    /\ AsyncIdle

----------------------------------------------------------------------------
(* Specifications                                                          *)

\* The nonce sequencer alone: clients draw nonces while the clock moves.
InitNonce ==
    NonceInit /\ WriteIdle /\ ValIdle /\ SubIdle /\ EtIdle /\ OpIdle /\ AuxIdle
NextNonce == ClockForward \/ ClockBackward \/ CallNonceManager
SpecNonce == InitNonce /\ [][NextNonce]_vars

\* _validateResponse applied to every envelope.
InitValidate ==
    NonceIdle /\ WriteIdle /\ ValInit /\ SubIdle /\ EtIdle /\ OpIdle /\ AuxIdle
NextValidate == Validate
SpecValidate == InitValidate /\ [][NextValidate]_vars

\* The subscription client: subscriptions come and go while messages arrive
\* and translations complete in any order.
InitSub ==
    NonceIdle /\ WriteIdle /\ ValIdle /\ SubInit /\ EtIdle /\ OpIdle /\ AuxIdle
NextSub ==
    \/ \E m \in Methods, c \in ArgCoins \union {NoCoin}, u \in Addrs \union {NoUser} :
          Subscribe(m, c, u)
    \/ \E id \in 1..Len(subs) : Unsubscribe(id)
    \/ \E id \in 1..Len(subs) : UnsubscribeResolve(id)
    \/ \E ch \in Channels : \E d \in Payloads(ch) : Dispatch(ch, d)
    \/ \E t \in tasks : TranslationDone(t)
SpecSub == InitSub /\ [][NextSub]_vars

\* The write path of the clients.
InitWrite ==
    NonceInit /\ WriteInit /\ ValIdle /\ SubIdle /\ EtIdle /\ OpIdle /\ AuxIdle
NextWrite ==
    \/ ClockForward
    \/ ClockBackward
    \/ \E c \in Clients, via \in Vias : StartWrite(c, via)
    \/ \E c \in Clients, k \in 1..MaxCalls : StartCloseAll(c, k)
    \/ \E i \in 1..Len(calls) : WriteDrawNonce(i)
    \/ \E i \in 1..Len(calls) : SignOk(i)
    \/ \E i \in 1..Len(calls) : SignFail(i)
    \/ \E i \in 1..Len(calls) : \E e \in ResponsesFor(WriteOf(calls[i].via)) :
          TransportRespond(i, e)
    \/ \E i \in 1..Len(calls) : TransportFail(i)
SpecWrite == InitWrite /\ [][NextWrite]_vars

\* The event target alone: listeners are added and removed between and
\* during dispatches.
InitDispatch ==
    NonceIdle /\ WriteIdle /\ ValIdle /\ SubIdle /\ EtInit /\ OpIdle /\ AuxIdle
NextDispatch ==
    \/ \E t \in EvTypes, once \in BOOLEAN : EtAdd(t, once)
    \/ \E t \in EvTypes, cb \in 1..MaxCallbacks : EtRemove(t, cb)
    \/ \E t \in EvTypes : EtDispatchStart(t)
    \/ EtInvoke
    \/ EtCallbackReturn
    \/ EtCallbackThrow
    \/ EtDispatchEnd
SpecDispatch == InitDispatch /\ [][NextDispatch]_vars

\* The cancelAll operations from the read of the open orders to the end of
\* the cancel they issue.
InitCancelAll ==
    NonceInit /\ WriteInit /\ ValIdle /\ SubIdle /\ EtIdle /\ CancelAllInit /\ AuxIdle
NextCancelAll ==
    \/ \E c \in Clients, kind \in CancelAllKinds, symbol \in Symbols \union {""} :
          StartCancelAll(c, kind, symbol)
    \/ \E i \in 1..Len(ops) : ReadFail(i)
    \/ \E i \in 1..Len(ops) : \E vo \in VenueOrders : OpenOrdersResolve(i, vo)
    \/ \E i \in 1..Len(calls) : WriteDrawNonce(i)
    \/ \E i \in 1..Len(calls) : SignOk(i)
    \/ \E i \in 1..Len(calls) : SignFail(i)
    \/ \E i \in 1..Len(calls) : \E e \in ResponsesFor(WriteOf(calls[i].via)) :
          TransportRespond(i, e)
    \/ \E i \in 1..Len(calls) : TransportFail(i)
SpecCancelAll == InitCancelAll /\ [][NextCancelAll]_vars

\* getSlippagePrice on every reference price, side and slippage.
InitSlippage ==
    /\ NonceIdle /\ WriteIdle /\ ValIdle /\ SubIdle /\ EtIdle /\ AuxIdle
    /\ exCfg = [use |-> FALSE, translator |-> FALSE]
    /\ catalog = [perp |-> {}, spot |-> {}]
    /\ venuePos = NoPositions
    /\ ops = <<>>
    /\ SlipInit
NextSlippage == Slip
SpecSlippage == InitSlippage /\ [][NextSlippage]_vars

\* marketClose and closeAllPositions from their reads to the end of the
\* orders they issue, while the venue's positions may change.
\* One operation is started per behaviour, on the first client, at the first
\* clock reading: the clients are alike and the clock stands still here.
InitClose ==
    /\ NonceInit /\ clock = 1
    /\ WriteInit /\ ValIdle /\ SubIdle /\ EtIdle /\ CloseInit /\ AuxIdle
NextClose ==
    \/ \E k \in 1..Len(PerpCoins), pos \in PosValues : VenueMove(k, pos)
    \/ \E symbol \in {"BTC", "BTC-PERP"},
          size \in {Undefined, 0, 10}, px \in {Undefined, 140} : StartMarketClose(1, symbol, size, px)
    \/ StartCloseAllPositions(1)
    \/ \E i \in 1..Len(ops) : ~SettlePending /\ ReadFail(i)
    \/ \E i \in 1..Len(ops) : MarketCloseRead(i)
    \/ \E i \in 1..Len(ops), mid \in MidPrices : MidsResolve(i, mid)
    \/ \E p \in 1..Len(ops) : CloseAllRead(p)
    \/ \E p \in 1..Len(ops) : CloseAllSettle(p)
    \/ \E i \in 1..Len(calls) : ~SettlePending /\ WriteDrawNonce(i)
    \/ \E i \in 1..Len(calls) : ~SettlePending /\ SignOk(i)
    \/ \E i \in 1..Len(calls) : ~SettlePending /\ SignFail(i)
    \/ \E i \in 1..Len(calls) : \E e \in ResponsesFor(WriteOf(calls[i].via)) :
          ~SettlePending /\ TransportRespond(i, e)
    \/ \E i \in 1..Len(calls) : ~SettlePending /\ TransportFail(i)
SpecClose == InitClose /\ [][NextClose]_vars

\* Every derived operation that starts with a read of its own: the
\* cancelAll operations next to marketClose and closeAllPositions.
InitReads == InitClose
NextReads ==
    \/ NextClose
    \/ \E kind \in CancelAllKinds, symbol \in Symbols \union {""} :
          ~SettlePending /\ StartCancelAll(1, kind, symbol)
    \/ \E i \in 1..Len(ops) : \E vo \in VenueOrders : OpenOrdersResolve(i, vo)
SpecReads == InitReads /\ [][NextReads]_vars

\* marketClose and its reference price: the caller's, or the mid the venue
\* answers, which may lack the symbol.
InitMid == InitClose
NextMid ==
    \/ \E c \in Clients, symbol \in {"BTC", "BTC-PERP"},
          size \in {Undefined, 10}, px \in {Undefined, 0, 140} :
          StartMarketClose(c, symbol, size, px)
    \/ \E i \in 1..Len(ops) : MarketCloseRead(i)
    \/ \E i \in 1..Len(ops), mid \in MidPrices \union {Undefined} : MidsResolve(i, mid)
    \/ \E i \in 1..Len(calls) : WriteDrawNonce(i)
    \/ \E i \in 1..Len(calls) : SignOk(i)
SpecMid == InitMid /\ [][NextMid]_vars

\* delay() calls against signals the application aborts.  A timer that is
\* due fires and time goes on.
InitDelay ==
    /\ NonceIdle /\ WriteIdle /\ ValIdle /\ SubIdle /\ EtIdle /\ OpIdle
    /\ McIdle /\ chainIn = NoChainIn /\ chainOut = NoChainOut
    /\ acts = <<>> /\ defaults = NoDefaults
    /\ DelayInit
NextDelay ==
    \/ \E s \in SignalIds, r \in Reasons : AbortSignal(s, r)
    \/ \E ms \in 1..MaxMs, s \in SignalIds \union {NoSignal} : StartDelay(ms, s)
    \/ Tick
    \/ \E d \in 1..Len(delays) : TimerFires(d)
SpecDelay ==
    /\ InitDelay /\ [][NextDelay]_vars
    /\ WF_vars(Tick) /\ WF_vars(\E d \in 1..Len(delays) : TimerFires(d))

\* AbortSignal.any through the polyfill.  The interval keeps coming round
\* until it is cleared.
InitAny ==
    /\ NonceIdle /\ WriteIdle /\ ValIdle /\ SubIdle /\ EtIdle /\ OpIdle
    /\ McIdle /\ chainIn = NoChainIn /\ chainOut = NoChainOut
    /\ acts = <<>> /\ defaults = NoDefaults
    /\ AnyInit
NextAny ==
    \/ \E s \in SignalIds, r \in Reasons : AbortSignal(s, r)
    \/ \E inputs \in InputLists : CreateAny(inputs)
    \/ \E a \in 1..Len(anys) : PollAny(a)
SpecAny ==
    /\ InitAny /\ [][NextAny]_vars
    /\ WF_vars(\E a \in 1..Len(anys) : PollAny(a))

\* The multicall client on every token list and every answer of the chain.
InitMulticall ==
    NonceIdle /\ WriteIdle /\ ValIdle /\ SubIdle /\ EtIdle /\ OpIdle /\ AuxIdle
NextMulticall ==
    \/ \E tokens \in TokenLists : GetTokenBalances(tokens)
    \/ \E answer \in Answers(Len(mcIn.tokens)) : AggregateSettles(answer)
    \/ \E answer \in NativeAnswers : GetNativeBalance(answer)
SpecMulticall == InitMulticall /\ [][NextMulticall]_vars

\* Chain-id resolution for every configuration, wallet and wallet answer.
InitChain ==
    NonceIdle /\ WriteIdle /\ ValIdle /\ SubIdle /\ EtIdle /\ OpIdle /\ AuxIdle
NextChain == \E in \in ChainInputs : ResolveChainId(in)
SpecChain == InitChain /\ [][NextChain]_vars

\* order() and cancel() under every configuration of the translator and
\* of the defaults, up to the hand-over to the transport.
InitAction ==
    /\ NonceInit /\ WriteInit /\ ValIdle /\ SubIdle /\ EtIdle
    /\ exCfg \in [use : BOOLEAN, translator : {TRUE}]
    /\ catalog = [perp |-> {}, spot |-> {}]
    /\ venuePos = NoPositions
    /\ ops = <<>>
    /\ slipIn = NoSlip
    /\ slipOut = Undefined
    /\ McIdle
    /\ chainIn = NoChainIn /\ chainOut = NoChainOut
    /\ acts = <<>>
    /\ DefaultsInit
    /\ AsyncIdle
NextAction ==
    \/ \E kind \in {"order", "cancel"}, items \in ItemLists,
          argVault \in ArgVaults, argExpires \in ArgExpires :
          StartAction(1, kind, items, argVault, argExpires)
    \/ \E i \in 1..Len(acts) : ConvertAssets(i)
    \/ \E i \in 1..Len(calls) : WriteDrawNonce(i)
    \/ \E i \in 1..Len(calls) : SignOk(i)
    \/ \E i \in 1..Len(calls) : SignFail(i)
SpecAction == InitAction /\ [][NextAction]_vars

----------------------------------------------------------------------------
(* Claims                                                                  *)

\* C1: on one client's sequencer every nonce returned by getNonce is
\* strictly greater than every nonce it returned before, also for calls in
\* the same millisecond and after the clock has moved backwards.
C1_StrictlyIncreasing ==
    \A i, j \in 1..Len(issued) :
        (i < j /\ issued[i].client = issued[j].client)
            => issued[i].nonce < issued[j].nonce

\* C1 witness: one client has drawn three nonces, two of them in the same
\* millisecond and one after the clock went backwards.
C1_Witness ==
    \E i, j, k \in 1..Len(issued) :
        /\ i < j /\ j < k
        /\ issued[i].client = issued[j].client
        /\ issued[j].client = issued[k].client
        /\ issued[i].now = issued[j].now
        /\ issued[k].now < issued[j].now

\* C2: getNonce returns the wall-clock value when that is strictly greater
\* than the last issued nonce (or none was issued) and lastIssued + 1
\* otherwise, and the stored last-issued value is the nonce just returned.
C2_GetNonceContract ==
    /\ \A i \in 1..Len(issued) :
          LET r == issued[i] IN
          /\ (r.prev = Undefined \/ r.now > r.prev) => r.nonce = r.now
          /\ (r.prev # Undefined /\ r.now <= r.prev) => r.nonce = r.prev + 1
    /\ \A c \in Clients :
          LET mine == {i \in 1..Len(issued) : issued[i].client = c} IN
          mine # {} =>
              lastNonce[c] = issued[CHOOSE i \in mine : \A j \in mine : j <= i].nonce

\* C2 witness: both branches have been taken, the second one with a clock
\* strictly behind the last issued nonce.
C2_Witness ==
    \E i, j \in 1..Len(issued) :
        /\ issued[i].prev # Undefined /\ issued[i].now > issued[i].prev
        /\ issued[j].prev # Undefined /\ issued[j].now < issued[j].prev
        /\ issued[j].nonce = issued[j].prev + 1

\* The calls whose request has been signed.
SignedCalls == {i \in 1..Len(calls) : calls[i].pc \in {"sending", "returned", "rejected"}
                                       /\ calls[i].error # "SignerError"}

\* The position of call i's nonce draw in the nonce log.  (Calls are kept in
\* start order; issue order is the order of the draws.)
IssuePos(i) ==
    CHOOSE n \in 1..Len(issued) :
        /\ issued[n].client = calls[i].client
        /\ issued[n].nonce = calls[i].nonce

\* C3 as stated: the signed requests of one wallet carry strictly increasing
\* nonces in issue order, whichever client instance built them.
C3_PerWalletMonotonic ==
    \A i, j \in SignedCalls :
        (i # j /\ WalletOf(calls[i].client) = WalletOf(calls[j].client)
               /\ IssuePos(i) < IssuePos(j))
            => calls[i].nonce < calls[j].nonce

\* C3 amended: the signed requests built by one client instance carry
\* strictly increasing nonces in issue order.
C3_PerClientMonotonic ==
    \A i, j \in SignedCalls :
        (i # j /\ calls[i].client = calls[j].client /\ IssuePos(i) < IssuePos(j))
            => calls[i].nonce < calls[j].nonce

\* C3 witness: one client has signed two requests whose nonces were drawn in
\* the same millisecond, the later-started call drawing first.
C3_Witness ==
    \E i, j \in SignedCalls :
        /\ i < j
        /\ calls[i].client = calls[j].client
        /\ IssuePos(j) < IssuePos(i)
        /\ issued[IssuePos(i)].now = issued[IssuePos(j)].now

ItemIsError(it) == it.isObject /\ it.key = "error"

HasErrorItem(e) == \E k \in 1..Len(e.statuses) : ItemIsError(e.statuses[k])

\* C4: _validateResponse throws ApiRequestError for status err; throws
\* ApiRequestError carrying the whole envelope for an order or cancel
\* response with at least one error item, whatever the other items are;
\* otherwise it throws nothing and the envelope goes on as it came.
C4_ValidatorContract ==
    vOut # NotValidated =>
        /\ vEnv.status = "err" => (vOut.thrown /\ vOut.error = "ApiRequestError")
        /\ (vEnv.status = "ok" /\ vEnv.type \in {"order", "cancel"} /\ HasErrorItem(vEnv))
             => (vOut.thrown /\ vOut.error = "ApiRequestError" /\ vOut.response = vEnv)
        /\ (vEnv.status = "ok" /\ ~(vEnv.type \in {"order", "cancel"} /\ HasErrorItem(vEnv)))
             => (~vOut.thrown /\ vOut.response = vEnv)

\* C4 witness: a bulk response whose first item succeeded and whose second
\* item is an error has been rejected.
C4_Witness ==
    /\ vOut.thrown
    /\ vEnv.status = "ok"
    /\ Len(vEnv.statuses) >= 2
    /\ ~ItemIsError(vEnv.statuses[1])
    /\ ItemIsError(vEnv.statuses[2])

EnvelopeClean(e) == e.status = "ok" /\ ~HasErrorItem(e)

\* C5: an envelope that order(), cancel(), a cancelAll* operation,
\* marketClose or closeAllPositions resolves with never has status err and
\* never holds an error item.
C5_OnlyValidatedResults ==
    \A e \in WriteResults \union CloseAllResults : EnvelopeClean(e)

\* C5 witness: a closeAllPositions has resolved with a non-empty order
\* response while a cancelAllOrders or marketClose was rejected by the
\* validator.
C5_Witness ==
    /\ \E i \in 1..Len(calls) :
          /\ calls[i].via = "closeAllPositions"
          /\ PromiseAllFulfilled(calls[i].group)
          /\ Len(calls[i].result.statuses) > 0
    /\ \E j \in 1..Len(calls) :
          /\ calls[j].via \in {"cancelAllOrders", "marketClose"}
          /\ calls[j].error = "ApiRequestError"

\* The subscriptions whose handler is in the registry.
Registered(ch) == {id \in 1..Len(subs) : subs[id].state = "active" /\ subs[id].channel = ch}

CoinScoped == CoinMethods \union {"activeAssetData"}

\* C6 as stated: a coin-scoped subscription's listener is only ever called
\* with a payload all of whose entries carry the coin the subscription was
\* created for.
C6_OnlyOwnCoin ==
    \A dl \in deliveries :
        subs[dl.sub].method \in CoinScoped =>
            \A k \in 1..Len(dl.payload.coins) : dl.payload.coins[k] = subs[dl.sub].coin

UserMatched == UserMethods \union {"activeAssetData"}

SameUser(s, d) ==
    /\ toLowerCase(d.user) = toLowerCase(s.user)
    /\ s.method = "activeAssetData" => d.coins[1] = s.requestCoin

\* C7 as stated: when a message is dispatched on the channel of a
\* user-matched subscription, the handler goes on to the listener exactly
\* when the message's user equals the subscription's user ignoring case
\* (and, for activeAssetData, the coin is the subscribed one).
C7_CaseInsensitiveUserMatch ==
    \A id \in DOMAIN lastDispatch.outcome :
        subs[id].method \in UserMatched =>
            (lastDispatch.outcome[id] # "skipped" <=> SameUser(subs[id], lastDispatch.payload))

\* Right after a dispatch on user, notification or orderUpdates, every
\* subscription registered on the channel has had its listener called with
\* the message or has its handler suspended in the translator for it.
C8_AllReached ==
    lastDispatch.ch \in {"user", "notification", "orderUpdates"} =>
        \A id \in Registered(lastDispatch.ch) :
            \/ \E dl \in deliveries :
                  dl.sub = id /\ dl.seq = lastDispatch.seq /\ dl.raw = lastDispatch.payload
            \/ [sub |-> id, seq |-> lastDispatch.seq, payload |-> lastDispatch.payload]
                  \in tasks

\* A suspended handler only ever ends by calling its listener with the
\* message it was suspended for.
C8_SuspendedEndsInDelivery ==
    \A t \in tasks :
        t \notin tasks' =>
            \E dl \in deliveries' : dl.sub = t.sub /\ dl.seq = t.seq /\ dl.raw = t.payload

\* C8: on user, notification and orderUpdates every message reaches the
\* listener of every subscription registered on the channel, whatever user
\* the subscription was created for: none is filtered out, at once or after
\* translation.
C8_OpenChannelsDeliverToAll ==
    [](C8_AllReached) /\ [][C8_SuspendedEndsInDelivery]_vars

\* C8 witness: one message has just reached the listeners of two
\* subscriptions made for different users on one such channel.
C8_Witness ==
    \E a, b \in 1..Len(subs) :
        /\ a # b
        /\ subs[a].method \in OpenMethods
        /\ toLowerCase(subs[a].user) # toLowerCase(subs[b].user)
        /\ \E da, db \in deliveries :
              da.sub = a /\ db.sub = b /\ da.seq = db.seq /\ da.seq = lastDispatch.seq

\* C9 as stated: a listener is called in arrival order: never for a message
\* older than one it has already seen, and never while the handler of an
\* older message of the same subscription is still suspended.
C9_InArrivalOrder ==
    \A dl \in deliveries :
        /\ dl.seq > dl.prevMax
        /\ \A t \in tasks : t.sub = dl.sub => t.seq > dl.seq

\* C10 as stated: no listener is called once its subscription's unsubscribe
\* has resolved.
C10_SilentAfterUnsubscribe ==
    \A dl \in deliveries : dl.state # "closed"

\* C11 as stated: a callback added while a dispatch for its event type is in
\* progress is not called for the event being dispatched.
C11_AddedNotInvoked ==
    \A i \in 1..Len(etLog) : etLog[i].kind = "call" => ~etLog[i].late

\* How often the loop has called callback cb for event msg.
Invocations(msg, cb) ==
    Cardinality({i \in 1..Len(etLog) :
                    etLog[i].kind = "call" /\ etLog[i].msg = msg /\ etLog[i].cb = cb})

\* C12: removals during a dispatch do not disturb it: no callback is called
\* twice for one event, and when dispatchEvent returns every callback that
\* was registered when it began and was not removed meanwhile has been
\* called exactly once for the event.
C12_RemovalKeepsDispatchWhole ==
    /\ \A m \in 1..etCount.events, cb \in 1..etCount.cbs : Invocations(m, cb) <= 1
    /\ (~etLoop.active /\ etLoop.msg > 0) =>
          \A cb \in etStart \ etRemoved : Invocations(etLoop.msg, cb) = 1

\* C12 witness: a dispatch has returned during which a callback that was
\* registered at its start was removed before its turn, by the callback
\* before it, and a callback after it was then called.
C12_Witness ==
    /\ ~etLoop.active
    /\ etLoop.msg > 0
    /\ \E i, j, k \in 1..Len(etLog) :
          /\ i < j /\ j < k
          /\ etLog[i].msg = etLoop.msg /\ etLog[j].msg = etLoop.msg
          /\ etLog[k].msg = etLoop.msg
          /\ etLog[i].kind = "call" /\ etLog[j].kind = "remove" /\ etLog[k].kind = "call"
          /\ {etLog[i].cb, etLog[j].cb, etLog[k].cb} \subseteq etStart
          /\ etLog[i].cb < etLog[j].cb /\ etLog[j].cb < etLog[k].cb

\* The cancelAll operations that got as far as their filter: the read
\* resolved and the translator calls before the filter were possible.
PastFilter ==
    {i \in 1..Len(ops) :
        /\ ops[i].kind \in CancelAllKinds
        /\ ops[i].pc # "reading"
        /\ ops[i].error \notin {"TransportError", "TypeError"}}

\* The fetched orders of operation i that its filter is meant to keep, with
\* their coins in display form.
Kept(i) ==
    ordersToCancel(ops[i].kind, ops[i].symbol, withDisplayCoins(ops[i].openOrders))

\* C13: a cancelAllOrders, cancelAllSpotOrders or cancelAllPerpOrders whose
\* filter keeps no order fails with the no-orders error and has no write:
\* every nonce drawn and every request signed or sent belongs to the cancel
\* of an operation that kept at least one order.
C13_EmptySelectionStopsEarly ==
    /\ \A i \in PastFilter :
          Len(Kept(i)) = 0 =>
              /\ ops[i].pc = "rejected"
              /\ ops[i].error = "NoOrdersError"
              /\ ops[i].call = 0
    /\ \A k \in 1..Len(calls) :
          \E i \in PastFilter : ops[i].call = k /\ Len(Kept(i)) > 0
    /\ Len(issued) <= Len(calls)

\* C13 witness: a cancelAllOrders with a symbol has read two open orders,
\* none on that symbol, and has failed.
C13_Witness ==
    \E i \in PastFilter :
        /\ ops[i].symbol # ""
        /\ Len(ops[i].openOrders) = 2
        /\ Len(Kept(i)) = 0
        /\ ops[i].pc = "rejected"

\* The cancels that have been signed and handed to the transport.
HandedOver(k) ==
    /\ k # 0
    /\ calls[k].pc \in {"sending", "returned", "rejected"}
    /\ calls[k].error # "SignerError"

\* The fetched orders whose display coin is the symbol; all without symbol.
OnSymbol(i) ==
    SelectSeq(ops[i].openOrders,
              LAMBDA o : ops[i].symbol = "" \/ convertSymbol(o.coin) = ops[i].symbol)

\* C14: the cancel batch cancelAllOrders(symbol) hands to the transport has
\* one entry per fetched open order whose display coin is the symbol (per
\* fetched order when no symbol is given), in order, each with that order's
\* id, and no other entry; the operation issues that one cancel only.
C14_BatchIsTheSymbolsOrders ==
    /\ \A i \in 1..Len(ops) :
          (ops[i].kind = "cancelAllOrders" /\ HandedOver(ops[i].call)) =>
              /\ Len(ops[i].cancels) = Len(OnSymbol(i))
              /\ \A k \in 1..Len(ops[i].cancels) :
                    /\ ops[i].cancels[k].o = OnSymbol(i)[k].oid
                    /\ ops[i].cancels[k].a = convertSymbol(OnSymbol(i)[k].coin)
    /\ \A i, j \in 1..Len(ops) :
          (i # j /\ ops[i].call # 0) => ops[i].call # ops[j].call
    /\ Len(calls) <= Len(ops)

\* C14 witness: open orders on BTC and ETH, symbol BTC-PERP: the batch handed
\* to the transport holds the BTC order's id only.
C14_Witness ==
    \E i \in 1..Len(ops) :
        /\ ops[i].kind = "cancelAllOrders"
        /\ ops[i].symbol = "BTC-PERP"
        /\ Len(ops[i].openOrders) = 2
        /\ ops[i].openOrders[1].coin = "ETH"
        /\ ops[i].openOrders[2].coin = "BTC"
        /\ HandedOver(ops[i].call)
        /\ Len(ops[i].cancels) = 1
        /\ ops[i].cancels[1].o = ops[i].openOrders[2].oid

\* C15 as stated: an order whose symbol the catalog lists as perpetual is
\* never kept by cancelAllSpotOrders and one listed as spot is never kept by
\* cancelAllPerpOrders.
C15_CatalogFirst ==
    \A i \in PastFilter :
        \A k \in 1..Len(ops[i].toCancel) :
            /\ ops[i].kind = "cancelAllSpotOrders" =>
                  ops[i].toCancel[k].coin \notin catalog.perp
            /\ ops[i].kind = "cancelAllPerpOrders" =>
                  ops[i].toCancel[k].coin \notin catalog.spot

\* C17 as stated: the price getSlippagePrice returns is not below the
\* reference price for a closing buy and not above it for a closing sell.
C17_PriceMovesWithTheOrder ==
    slipOut # Undefined =>
        /\ slipIn.isBuy => slipOut >= slipIn.px * 100
        /\ ~slipIn.isBuy => slipOut <= slipIn.px * 100


\* The positions a marketClose has read hold none for its symbol.
NoPositionFor(i) ==
    /\ ops[i].kind = "marketClose"
    /\ ops[i].pc # "reading"
    /\ ops[i].error # "TransportError"
    /\ \A k \in 1..Len(ops[i].positions) : ops[i].positions[k].coin # ops[i].symbol

\* C16: a marketClose whose clearinghouse read holds no position for its
\* symbol has failed with the position-not-found error, and has read no mid
\* price, built no order and issued no write: every write (and so every
\* nonce, signature and transport request) belongs to a marketClose that
\* found its position.
C16_NoPositionNoWrite ==
    /\ \A i \in 1..Len(ops) : NoPositionFor(i) =>
          /\ ops[i].pc = "rejected"
          /\ ops[i].error = "PositionNotFoundError"
          /\ ~ops[i].readMids
          /\ ops[i].orders = <<>>
          /\ ops[i].call = 0
    /\ \A c \in 1..Len(calls) :
          \E i \in 1..Len(ops) : ops[i].call = c /\ ~NoPositionFor(i)
    /\ Len(issued) <= Len(calls)

C16_Witness ==
    \E i \in 1..Len(ops) :
        /\ NoPositionFor(i)
        /\ ops[i].parent = 0
        /\ ops[i].positions # <<>>
        /\ ops[i].pc = "rejected"

\* The position a marketClose found for its symbol.
Found(i) == ops[i].positions[CHOOSE k \in 1..Len(ops[i].positions) :
                /\ ops[i].positions[k].coin = ops[i].symbol
                /\ \A j \in 1..(k - 1) : ops[i].positions[j].coin # ops[i].symbol]

\* C18: a marketClose that issued a write issued exactly one, carrying one
\* order: immediate-or-cancel, reduce-only, on the symbol, a buy when the
\* position found is negative and a sell when it is positive, of the
\* absolute position size when no size was given and of the given size when
\* a nonzero one was.
C18_OneFlatteningOrder ==
    /\ \A i \in 1..Len(ops) : (ops[i].kind = "marketClose" /\ ops[i].call # 0) =>
          /\ ~NoPositionFor(i)
          /\ calls[ops[i].call].via = "marketClose"
          /\ Len(ops[i].orders) = 1
          /\ LET o == ops[i].orders[1]
                 szi == Found(i).szi IN
             /\ o.a = ops[i].symbol
             /\ o.tif = "Ioc"
             /\ o.r
             /\ szi < 0 => o.b
             /\ szi > 0 => ~o.b
             /\ ops[i].size = Undefined => o.s = Abs(szi)
             /\ ops[i].size \notin {Undefined, 0} => o.s = ops[i].size
    /\ \A i, j \in 1..Len(ops) : (ops[i].call # 0 /\ ops[i].call = ops[j].call) => i = j
    /\ \A c \in 1..Len(calls) : \E i \in 1..Len(ops) : ops[i].call = c

C18_Witness ==
    \E i, j \in 1..Len(ops) :
        /\ ops[i].call # 0 /\ ops[j].call # 0
        /\ Found(i).szi < 0 /\ ops[i].orders[1].b /\ ops[i].orders[1].s = 25
        /\ Found(j).szi > 0 /\ ~ops[j].orders[1].b
        /\ calls[ops[i].call].pc = "returned"

CloseAlls == {p \in 1..Len(ops) : ops[p].kind = "closeAllPositions"}

\* The market-closes started for the position at index k of the read.
StartedFor(p, k) ==
    {i \in ChildrenOf(p) : ops[i].kind = "marketClose"
                           /\ ops[i].symbol = ops[p].positions[k].coin}

\* C19: a closeAllPositions has started no market-close while its read is
\* under way; after the read it has started exactly one for every position
\* of nonzero size in the read, none for a position of size zero and no
\* other; all of them are started, each up to its own clearinghouse read, in
\* the step that takes closeAllPositions to its wait.  When the read holds
\* positions but none of nonzero size, nothing is started and the wait is
\* over at once, with an empty list of results.
C19_OneClosePerOpenPosition ==
    [][\A p \in CloseAlls :
          /\ ops[p].pc = "reading" =>
                /\ ChildrenOf(p) = {}
                /\ ops'[p].pc \in {"reading", "waiting", "rejected"}
                /\ ops'[p].pc = "rejected" => (ChildrenOf(p))' = {}
                /\ \A i \in (ChildrenOf(p))' :
                      /\ ops'[i].pc = "reading"
                      /\ ops'[i].call = 0
                      /\ ops'[i].size = Undefined /\ ops'[i].px = Undefined
                /\ \A k \in 1..Len(ops'[p].positions) :
                      Cardinality((StartedFor(p, k))') =
                          IF ops'[p].positions[k].szi # 0 THEN 1 ELSE 0
                /\ \A i \in (ChildrenOf(p))' :
                      \E k \in 1..Len(ops'[p].positions) : i \in (StartedFor(p, k))'
                /\ (ops'[p].pc = "waiting" /\ (ChildrenOf(p))' = {}) =>
                      (promiseAll(p))'.state = "fulfilled"
          /\ ops[p].pc # "reading" =>
                /\ (ChildrenOf(p))' = ChildrenOf(p)
                /\ ops'[p].positions = ops[p].positions
                /\ (ops[p].pc = "waiting" /\ ChildrenOf(p) = {}) =>
                      /\ ops'[p].pc = "resolved"
                      /\ calls' = calls
      ]_vars

C19_Witness ==
    \E p \in CloseAlls :
        /\ \E k \in 1..Len(ops[p].positions) : ops[p].positions[k].szi = 0
        /\ Cardinality(ChildrenOf(p)) = 1
        /\ \A i \in ChildrenOf(p) : ops[i].call # 0

\* The market-closes of a closeAllPositions that have rejected.
RejectedOf(p) == {i \in ChildrenOf(p) : Settled(i).state = "rejected"}

\* What a market-close that has not ended can still do.
SiblingStep(i) ==
    \/ MarketCloseRead(i)
    \/ \E mid \in MidPrices : MidsResolve(i, mid)
    \/ ops[i].call # 0 /\ WriteDrawNonce(ops[i].call)
    \/ ops[i].call # 0 /\ SignOk(ops[i].call)
    \/ ops[i].call # 0 /\ \E e \in ResponsesFor("order") :
                             TransportRespond(ops[i].call, e)

\* C20: once one market-close of a waiting closeAllPositions has rejected,
\* the next step rejects closeAllPositions with that market-close's error,
\* and closeAllPositions rejects in no other way after its read; that step
\* leaves every market-close and every write as it was, and each sibling
\* that had not ended can still take its next step towards the transport.
C20_FirstRejectionWinsSiblingsGoOn ==
    /\ [][\A p \in CloseAlls :
             /\ (ops[p].pc = "waiting" /\ RejectedOf(p) # {}) =>
                   /\ ops'[p].pc = "rejected"
                   /\ \A i \in RejectedOf(p) : ops'[p].error = Settled(i).error
             /\ (ops[p].pc = "waiting" /\ ops'[p].pc = "rejected") =>
                   /\ RejectedOf(p) # {}
                   /\ calls' = calls
                   /\ \A i \in 1..Len(ops) : i # p => ops'[i] = ops[i]
         ]_vars
    /\ [](\A p \in CloseAlls : ops[p].pc = "rejected" =>
             \A i \in ChildrenOf(p) :
                 Settled(i).state = "pending" => ENABLED SiblingStep(i))

C20_Witness ==
    \E p \in CloseAlls :
        /\ ops[p].pc = "rejected"
        /\ ops[p].error # "none"
        /\ \E i \in ops[p].pendingAtReject :
              /\ ops[i].call # 0
              /\ calls[ops[i].call].pc = "returned"

\* The cancel entries a cancelAll operation builds from a read of the open
\* orders.
BuiltFrom(kind, symbol, venueOrders) ==
    cancelsOf(ordersToCancel(kind, symbol, withDisplayCoins(openOrders(venueOrders))))

\* C21: an operation is invoked with no snapshot and has built nothing
\* before its own read resolves; the step that resolves the read of a
\* marketClose - one started by closeAllPositions included - stores the
\* clearinghouse state the venue holds at that step, and the step that
\* resolves the read of a cancelAll operation stores the open orders just
\* read; what an operation builds is built from its own snapshot, which is
\* never replaced.  So closing N positions reads the positions N + 1 times.
C21_EveryCallReadsForItself ==
    [][\A i \in 1..Len(ops') :
          IF i > Len(ops)
          THEN /\ ops'[i].pc = "reading"
               /\ ops'[i].positions = <<>> /\ ops'[i].openOrders = <<>>
               /\ ops'[i].orders = <<>> /\ ops'[i].cancels = <<>>
               /\ ops'[i].call = 0 /\ ~ops'[i].readMids
          ELSE /\ (ops[i].pc = "reading" /\ ops'[i].pc # "reading"
                   /\ ops'[i].error # "TransportError") =>
                      IF ops[i].kind \in CancelAllKinds
                      THEN /\ ops'[i].openOrders \in VenueOrders
                           /\ ops'[i].positions = <<>>
                      ELSE /\ ops'[i].positions = clearinghouseState
                           /\ ops'[i].openOrders = <<>>
               /\ ops[i].pc # "reading" =>
                      /\ ops'[i].positions = ops[i].positions
                      /\ ops'[i].openOrders = ops[i].openOrders
               /\ ops'[i].pc = "reading" =>
                      /\ ops'[i].orders = <<>> /\ ops'[i].cancels = <<>>
                      /\ ops'[i].call = 0
               /\ ops'[i].cancels # <<>> =>
                      ops'[i].cancels =
                          BuiltFrom(ops[i].kind, ops[i].symbol, ops'[i].openOrders)
               /\ ops'[i].orders # <<>> =>
                      \E k \in 1..Len(ops'[i].positions) :
                          /\ ops'[i].positions[k].coin = ops[i].symbol
                          /\ ops'[i].orders[1].b = (ops'[i].positions[k].szi < 0)
      ]_vars

C21_Witness ==
    \E p \in CloseAlls : \E i, j \in ChildrenOf(p) :
        /\ i # j
        /\ ops[i].orders # <<>> /\ ops[j].orders # <<>>
        /\ ops[i].positions # ops[p].positions
        /\ ops[i].orders[1].b
        /\ \E k \in 1..Len(ops[p].positions) :
              /\ ops[p].positions[k].coin = ops[i].symbol
              /\ ops[p].positions[k].szi > 0

\* A getTokenBalances whose aggregate call has resolved, and its answer.
Aggregated ==
    /\ mcIn.op = "getTokenBalances"
    /\ mcIn.answer # <<>>
    /\ mcIn.answer[1].ok
RawOf(i) == mcIn.answer[1].returnData[i]

\* The raw result at index i is a string of hexadecimal digits, at least
\* one, with or without the prefix; HexNumber is the integer it spells.
Decodable(i) ==
    /\ mcIn.answer[1].hasReturnData
    /\ ~RawOf(i).missing
    /\ RawOf(i).digits # <<>>
    /\ \A n \in 1..Len(RawOf(i).digits) : RawOf(i).digits[n] \in {"0", "2"}
RECURSIVE HexNumber(_)
HexNumber(digits) ==
    IF digits = <<>> THEN 0
    ELSE 16 * HexNumber(SubSeq(digits, 1, Len(digits) - 1))
         + (IF digits[Len(digits)] = "2" THEN 2 ELSE 0)

\* C22: when the aggregate call has resolved, getTokenBalances returns
\* without raising one entry per token; the entry of a token whose raw
\* result is missing, empty or not a hexadecimal number carries that
\* token's address and balance 0, and the entry of every other token
\* carries the integer its own raw result spells.
C22_UndecodableIsZero ==
    Aggregated =>
        /\ ~mcOut.thrown
        /\ Len(mcOut.balances) = Len(mcIn.tokens)
        /\ \A i \in 1..Len(mcIn.tokens) :
              /\ mcOut.balances[i].address = mcIn.tokens[i].address
              /\ ~Decodable(i) => mcOut.balances[i].balance = 0
              /\ Decodable(i) =>
                    mcOut.balances[i].balance = HexNumber(RawOf(i).digits)

C22_Witness ==
    /\ Aggregated
    /\ Len(mcIn.tokens) = 2
    /\ RawOf(1) = [missing |-> FALSE, prefix |-> TRUE, digits |-> <<>>]
    /\ RawOf(2) = [missing |-> FALSE, prefix |-> TRUE, digits |-> <<"0", "2">>]
    /\ mcOut.balances[1].balance = 0
    /\ mcOut.balances[2].balance = 2

\* C23: getTokenBalances issues one aggregate call whose entries are the
\* tokens' addresses in input order; when the call resolves it returns the
\* call's block number and one balance per token, in input order, the i-th
\* with the i-th token's address, symbol and decimals and the integer the
\* i-th raw result spells.
C23_OneCallAlignedBalances ==
    (mcIn.op = "getTokenBalances" /\ mcIn.answer # <<>>) =>
        /\ mcOut.requests = <<[i \in 1..Len(mcIn.tokens) |-> mcIn.tokens[i].address]>>
        /\ Aggregated =>
              /\ mcOut.hasBlockNumber
              /\ mcOut.blockNumber = mcIn.answer[1].blockNumber
              /\ Len(mcOut.balances) = Len(mcIn.tokens)
              /\ \A i \in 1..Len(mcIn.tokens) :
                    /\ mcOut.balances[i].address = mcIn.tokens[i].address
                    /\ mcOut.balances[i].symbol = mcIn.tokens[i].symbol
                    /\ mcOut.balances[i].decimals = mcIn.tokens[i].decimals
                    /\ Decodable(i) =>
                          mcOut.balances[i].balance = HexNumber(RawOf(i).digits)

C23_Witness ==
    /\ Aggregated
    /\ Len(mcIn.tokens) = 2
    /\ mcIn.tokens[1].address # mcIn.tokens[2].address
    /\ Decodable(1) /\ Decodable(2)
    /\ mcOut.balances[1].balance = 32
    /\ mcOut.balances[2].balance = 2

\* C24: an entry returned by getTokenBalances has a formatted value exactly
\* when its token supplied decimals.
C24_FormattedIffDecimals ==
    Aggregated =>
        \A i \in 1..Len(mcIn.tokens) :
            mcOut.balances[i].formattedBalance.present
                <=> mcIn.tokens[i].decimals # Undefined

\* C25: when the call a balance query rests on rejects, the query rejects.
C25_CallFailureSurfaces ==
    (mcIn.answer # <<>> /\ ~mcIn.answer[1].ok) => mcOut.thrown

\* The wallet has supplied a chain id, and the id it has supplied.
WalletSupplies ==
    /\ \/ chainIn.kind \in {"viem", "ethers"} /\ chainIn.exposes
       \/ chainIn.kind = "window"
    /\ chainIn.answer.ok
StaticDefault == IF chainIn.isTestnet THEN TestnetChainId ELSE MainnetChainId

\* C26: a resolved chain id is the configured one when one is configured;
\* otherwise the id the wallet has reported when it reports one; otherwise
\* 0x66eee on testnet and 0xa4b1 on mainnet.
C26_ChainIdPrecedence ==
    (chainIn # NoChainIn /\ ~chainOut.thrown) =>
        chainOut.value =
            IF chainIn.explicit # "none" THEN ConfiguredChainId
            ELSE IF WalletSupplies THEN Hex0x(chainIn.answer.number)
            ELSE StaticDefault

\* C27: with no chain id configured, resolution yields a value, and the
\* static default whenever the wallet has not supplied one.
C27_ChainIdNeverFails ==
    (chainIn # NoChainIn /\ chainIn.explicit = "none") =>
        /\ ~chainOut.thrown
        /\ ~WalletSupplies => chainOut.value = StaticDefault

\* One of the strings among the items is a symbol the translator does not
\* know.
HasUnknownSymbol(items) ==
    \E k \in 1..Len(items) :
        items[k].str # "" /\ items[k].str \notin {"BTC-PERP", "ETH-PERP", "PURR-SPOT"}

\* C28: with symbol conversion in force, an order() or cancel() one of
\* whose symbols the translator does not know fails with the unknown-asset
\* error as soon as the conversion settles, whatever its other items are:
\* no action is built and no write is issued for it, so every write - every
\* nonce drawn, every signature, every request - belongs to a call whose
\* symbols all resolved.
C28_UnknownAssetStopsTheCall ==
    /\ \A i \in 1..Len(acts) :
          (hasSymbolConversion /\ HasUnknownSymbol(acts[i].items)
           /\ acts[i].pc # "converting") =>
              /\ acts[i].pc = "rejected"
              /\ acts[i].error = "UnknownAssetError"
              /\ acts[i].action = <<>>
              /\ acts[i].call = 0
    /\ \A c \in 1..Len(calls) :
          \E i \in 1..Len(acts) :
              /\ acts[i].call = c
              /\ ~(hasSymbolConversion /\ HasUnknownSymbol(acts[i].items))
    /\ Len(issued) <= Len(calls)

C28_Witness ==
    \E i, j \in 1..Len(acts) :
        /\ hasSymbolConversion
        /\ acts[i].items = <<BySymbol("ETH-PERP"), BySymbol("DOGE-PERP")>>
        /\ acts[i].pc = "rejected"
        /\ acts[j].call # 0 /\ calls[acts[j].call].pc = "sending"

\* The asset references of the writes handed to the signer: those of
\* order() and cancel() calls, and those the derived operations pass to
\* order() and cancel().
HandedToSigner ==
    UNION {{acts[i].action[k] : k \in 1..Len(acts[i].action)} :
              i \in {j \in 1..Len(acts) :
                        acts[j].call # 0 /\ calls[acts[j].call].pc # "nonce"}}
    \union
    UNION {{convertedActionArgs(<<BySymbol(ops[i].orders[k].a)>>)[1] :
                k \in 1..Len(ops[i].orders)} \union
           {convertedActionArgs(<<BySymbol(ops[i].cancels[k].a)>>)[1] :
                k \in 1..Len(ops[i].cancels)} :
              i \in {j \in 1..Len(ops) :
                        ops[j].call # 0 /\ calls[ops[j].call].pc # "nonce"}}

\* C29: every asset reference handed to the signer is a number.
C29_OnlyIndicesAreSigned ==
    \A ref \in HandedToSigner : ref.str = ""

\* The producer evaluations made by the calls before the i-th.
RECURSIVE EvalsUpTo(_)
EvalsUpTo(i) == IF i = 0 THEN 0 ELSE EvalsUpTo(i - 1) + acts[i].evals

\* C30: a call's vaultAddress is the caller's when the caller gave one and
\* the configured default otherwise, and so is its expiresAfter; a call
\* given expiresAfter evaluates no producer, a call not given it evaluates
\* the configured producer exactly once and takes the value of that very
\* evaluation, a new one on every call.
C30_CallerFirstDefaultsLazily ==
    /\ \A i \in 1..Len(acts) :
          /\ acts[i].vaultAddress =
                IF acts[i].argVault # "" THEN acts[i].argVault ELSE defaults.vault
          /\ acts[i].argExpires # Undefined =>
                /\ acts[i].expiresAfter = acts[i].argExpires
                /\ acts[i].evals = 0
          /\ acts[i].argExpires = Undefined =>
                /\ acts[i].evals = IF defaults.expires = "producer" THEN 1 ELSE 0
                /\ acts[i].expiresAfter =
                      CASE defaults.expires = "literal"  -> 500
                        [] defaults.expires = "producer" -> 1001 + EvalsUpTo(i - 1)
                        [] OTHER -> Undefined
    /\ defaults.evals = EvalsUpTo(Len(acts))

C30_Witness ==
    /\ defaults.expires = "producer" /\ defaults.vault # ""
    /\ Len(acts) = 2
    /\ acts[1].argExpires = Undefined /\ acts[1].expiresAfter = 1001
    /\ acts[2].argExpires = Undefined /\ acts[2].expiresAfter = 1002
    /\ acts[1].vaultAddress = "0xArgVault"
    /\ acts[2].vaultAddress = "0xDefaultVault"

\* The entries of a log that belong to call i.
EntriesOf(log, i) == {n \in 1..Len(log) : log[n].call = i}

\* C31: a call draws one nonce, when it draws, and the signer is called
\* once with it; at most one request of the call is handed to the transport
\* and none before the signature is there; a call that has rejected takes no
\* further step, and every nonce drawn on its client after the rejection is
\* strictly larger than the one it held.
C31_NothingIsRetried ==
    /\ [](/\ \A i \in 1..Len(calls) :
                /\ Cardinality(EntriesOf(signerLog, i)) =
                      IF calls[i].pc = "nonce" THEN 0 ELSE 1
                /\ Cardinality(EntriesOf(wire, i)) <= 1
                /\ calls[i].pc \in {"nonce", "signing"} => EntriesOf(wire, i) = {}
          /\ Len(issued) = Len(signerLog)
          /\ \A n \in 1..Len(signerLog) : issued[n].nonce = signerLog[n].nonce)
    /\ [][\A i \in 1..Len(calls) :
             calls[i].pc = "rejected" =>
                /\ calls'[i] = calls[i]
                /\ {n \in 1..Len(signerLog') : signerLog'[n].call = i}
                      = EntriesOf(signerLog, i)
                /\ {n \in 1..Len(wire') : wire'[n].call = i} = EntriesOf(wire, i)
                /\ \A j \in 1..Len(calls) :
                      (/\ calls[j].client = calls[i].client
                       /\ calls[j].pc = "nonce" /\ calls'[j].pc = "signing")
                         => calls'[j].nonce > calls[i].nonce]_vars

\* C31 witness: a call was rejected after its request went out; a later call
\* on the same client drew its nonce when the clock stood below the nonce of
\* the rejected call, and its request is out too.
C31_Witness ==
    \E i, j \in 1..Len(calls) :
        /\ i < j /\ calls[i].client = calls[j].client
        /\ calls[i].pc = "rejected"
        /\ calls[i].error \in {"TransportError", "ApiRequestError"}
        /\ calls[j].pc = "sending"
        /\ SignedAt(i) < SignedAt(j)
        /\ issued[SignedAt(j)].now < calls[i].nonce
        /\ calls[j].nonce > calls[i].nonce

\* C32: when the signer rejects, the call is rejected with the very error
\* the signer raised and no request of the call is on the wire.
C32_SignerErrorPropagates ==
    \A n \in 1..Len(signerLog) :
        signerLog[n].raised # "none" =>
            /\ calls[signerLog[n].call].pc = "rejected"
            /\ calls[signerLog[n].call].error = signerLog[n].raised
            /\ EntriesOf(wire, signerLog[n].call) = {}

\* C32 witness: the signer has rejected one call while the request of
\* another call of the same client went out.
C32_Witness ==
    \E n \in 1..Len(signerLog), m \in 1..Len(wire) :
        /\ signerLog[n].raised = "SignerError"
        /\ wire[m].client = signerLog[n].client
        /\ calls[signerLog[n].call].error = "SignerError"

\* C33 as stated: the requests of one client reach the transport in
\* increasing nonce order.
C33_SubmittedInNonceOrder ==
    \A a, b \in 1..Len(wire) :
        (a < b /\ wire[a].client = wire[b].client) => wire[a].nonce < wire[b].nonce

\* C34: a request on the wire carries the nonce, vaultAddress, expiresAfter,
\* action type and items the signer was called with for that call, which
\* are those of the call itself; an entry of the wire or of the signer's log
\* never changes afterwards, whatever other calls do.
C34_RequestIsWhatWasSigned ==
    /\ [](\A n \in 1..Len(wire) :
            LET i == wire[n].call
                sg == signerLog[SignedAt(i)] IN
            /\ EntriesOf(signerLog, i) # {}
            /\ wire[n].nonce = sg.nonce /\ wire[n].nonce = calls[i].nonce
            /\ wire[n].vaultAddress = sg.vaultAddress
            /\ wire[n].expiresAfter = sg.expiresAfter
            /\ wire[n].type = sg.type /\ wire[n].items = sg.items
            /\ \A k \in 1..Len(acts) :
                  acts[k].call = i =>
                     /\ wire[n].items = acts[k].action
                     /\ wire[n].type = acts[k].kind
                     /\ wire[n].vaultAddress = acts[k].vaultAddress
                     /\ wire[n].expiresAfter = acts[k].expiresAfter)
    /\ [][/\ \A n \in 1..Len(wire) : wire'[n] = wire[n]
          /\ \A n \in 1..Len(signerLog) :
                [signerLog'[n] EXCEPT !.raised = "none"]
                   = [signerLog[n] EXCEPT !.raised = "none"]]_vars

\* C34 witness: two calls of one client with different arguments were both
\* signed before either request went out, and the requests went out in the
\* other order.
C34_Witness ==
    /\ Len(wire) = 2 /\ Len(acts) = 2
    /\ wire[1].call = signerLog[2].call /\ wire[2].call = signerLog[1].call
    /\ wire[1].client = wire[2].client
    /\ wire[1].vaultAddress # wire[2].vaultAddress
    /\ wire[1].expiresAfter # wire[2].expiresAfter
    /\ wire[1].items # wire[2].items
    /\ wire[1].nonce > wire[2].nonce

\* C35 as stated: with symbol conversion in force, a payload handed to a
\* listener is the translation of the message it was made from.
C35_TranslatedBeforeDelivery ==
    conv => \A dl \in deliveries : dl.payload = convertResponse(dl.raw)

\* C37 as stated: an activeAssetCtx subscription listens on
\* activeSpotAssetCtx exactly when the coin of its subscribe payload begins
\* with "@".
C37_ChannelFollowsRequestCoin ==
    \A id \in 1..Len(subs) :
        subs[id].method = "activeAssetCtx" =>
            (subs[id].channel = "activeSpotAssetCtx"
                <=> startsWithAt(subs[id].requestCoin))

\* The marketClose operations whose order has been built.
Built == {i \in 1..Len(ops) : ops[i].kind = "marketClose" /\ ops[i].orders # <<>>}

\* C36 as stated: an order built from a caller's price was built without a
\* mid-price read and from that price; an order built without a caller's
\* price was built after a mid-price read; and the price of an order is
\* never the one computed from a missing mid.
C36_ReferencePriceIsDefined ==
    \A i \in Built :
        /\ ops[i].px \notin {Undefined, 0} =>
              /\ ~ops[i].readMids
              /\ ops[i].orders[1].p \in
                    getSlippagePrice(ops[i].symbol, ops[i].orders[1].b,
                                     DEFAULT_SLIPPAGE, ops[i].px)
        /\ ops[i].px = Undefined => ops[i].readMids
        /\ ops[i].orders[1].p # NaN

\* The signal of delay d is aborted.
SignalAborted(d) == d.signal # NoSignal /\ sigs[d.signal].aborted

\* C38: a delay started on an aborted signal is rejected with AbortError on
\* the spot and has no timer; a delay is rejected only with AbortError, only
\* when its signal is aborted, and then its timer is not running; it is
\* resolved only by its timer and not before ms have passed; a delay whose
\* signal is aborted is never pending, and the abort of the signal of a
\* pending delay rejects it and cancels its timer in the same step; a
\* settled delay stays as it settled; and every delay settles.
C38_DelaySettlesOnce ==
    /\ [](\A d \in 1..Len(delays) :
            /\ delays[d].abortedAtStart =>
                  /\ delays[d].promise = "rejected" /\ delays[d].error = "AbortError"
                  /\ delays[d].timer = "none"
                  /\ delays[d].settledAt = delays[d].startedAt
            /\ delays[d].promise = "rejected" =>
                  /\ delays[d].error = "AbortError"
                  /\ SignalAborted(delays[d])
                  /\ delays[d].timer \in {"none", "cleared"}
            /\ delays[d].promise = "resolved" =>
                  /\ delays[d].timer = "fired"
                  /\ delays[d].settledAt >= delays[d].startedAt + delays[d].ms
            /\ SignalAborted(delays[d]) => delays[d].promise # "pending"
            /\ delays[d].timer = "fired" => delays[d].promise = "resolved")
    /\ [][\A d \in 1..Len(delays) :
             /\ delays[d].promise # "pending" =>
                   /\ delays'[d].promise = delays[d].promise
                   /\ delays'[d].error = delays[d].error
                   /\ delays'[d].settledAt = delays[d].settledAt
             /\ (delays[d].promise = "pending" /\ delays'[d].promise = "resolved")
                   => ~SignalAborted(delays[d])
             /\ (/\ delays[d].promise = "pending" /\ delays[d].signal # NoSignal
                 /\ sigs'[delays[d].signal].aborted)
                   => /\ delays'[d].promise = "rejected"
                      /\ delays'[d].timer = "cleared"]_vars
    /\ \A d \in 1..MaxDelays :
          (Len(delays) >= d) ~> (Len(delays) >= d /\ delays[d].promise # "pending")

\* C38 witness: of two delays on one signal the first was resolved by its
\* timer; the signal was aborted later, which rejected the second and
\* cancelled its timer and left the first resolved.
C38_Witness ==
    /\ Len(delays) = 2
    /\ delays[1].signal = delays[2].signal /\ SignalAborted(delays[1])
    /\ delays[1].promise = "resolved" /\ delays[1].timer = "fired"
    /\ delays[2].promise = "rejected" /\ delays[2].timer = "cleared"
    /\ ~delays[2].abortedAtStart
    /\ delays[2].settledAt > delays[1].settledAt

\* The inputs of derived signal a that are aborted.
AbortedInputs(a) == {k \in 1..Len(a.inputs) : sigs[a.inputs[k]].aborted}

\* C39: a derived signal is aborted only when one of its inputs is, and
\* then with the reason of an aborted input; it is made aborted when an
\* input is aborted beforehand, and not otherwise; it is aborted whenever an
\* input that dispatches events is aborted; once aborted it stays aborted
\* with its reason; and the abort of any input leads to its abort.
C39_AnyFollowsItsInputs ==
    /\ [](\A a \in 1..Len(anys) :
            /\ anys[a].aborted =>
                  /\ AbortedInputs(anys[a]) # {}
                  /\ anys[a].reason \in
                        {sigs[anys[a].inputs[k]].reason : k \in AbortedInputs(anys[a])}
            /\ (\E k \in AbortedInputs(anys[a]) : sigs[anys[a].inputs[k]].events)
                  => anys[a].aborted
            /\ anys[a].madeAborted => anys[a].aborted)
    /\ [][/\ \A a \in 1..Len(anys) :
                anys[a].aborted =>
                   /\ anys'[a].aborted
                   /\ anys'[a].reason = anys[a].reason
          /\ Len(anys') > Len(anys) =>
                (anys'[Len(anys')].madeAborted
                    <=> \E k \in 1..Len(anys'[Len(anys')].inputs) :
                           sigs[anys'[Len(anys')].inputs[k]].aborted)]_vars
    /\ \A a \in 1..MaxAnys :
          (Len(anys) >= a /\ AbortedInputs(anys[a]) # {})
             ~> (Len(anys) >= a /\ anys[a].aborted)

\* C39 witness: a signal derived from two inputs, the first without
\* addEventListener, was made unaborted, took the reason of the first input
\* when the interval came round, and kept it when the second input was
\* aborted with another reason.
C39_Witness ==
    \E a \in 1..Len(anys) :
        /\ Len(anys[a].inputs) = 2
        /\ ~anys[a].madeAborted /\ anys[a].aborted
        /\ ~sigs[anys[a].inputs[1]].events
        /\ sigs[anys[a].inputs[1]].aborted /\ sigs[anys[a].inputs[2]].aborted
        /\ sigs[anys[a].inputs[1]].reason # sigs[anys[a].inputs[2]].reason
        /\ anys[a].reason = sigs[anys[a].inputs[1]].reason
        /\ ~anys[a].polling

====
